---- MODULE Spec2Model ----
(***************************************************************************)
(* Model of the pure-Go pattern matching engine: the Aho-Corasick          *)
(* automaton (src/main.go), the scanner inside AhoCorasickMatcher.Search   *)
(* (src/main.go) and the result cache (src/cache.go).                      *)
(*                                                                         *)
(* A Go string is a byte sequence.  The model represents a (valid UTF-8)   *)
(* string by the sequence of its code points and derives the bytes with    *)
(* the real UTF-8 encoding, so that byte lengths (len), byte offsets (the  *)
(* index of a range loop) and byte slices (s[a:b]) are those of the        *)
(* program.                                                                *)
(***************************************************************************)
EXTENDS Integers, Sequences, FiniteSets, TLC

VARIABLES
    patterns,     \* AhoCorasickMatcher.patterns: sequence of strings
    automaton,    \* AhoCorasickAutomaton.states: sequence of ACState (state s at index s+1)
    initialized,  \* AhoCorasickMatcher.initialized
    entries,      \* Cache.entries: function from hash key to CacheEntry
    maxSize,      \* Cache.maxSize
    stats,        \* Cache.stats: the four atomic counters
    now,          \* the clock read by time.Now()
    text,         \* argument of the current / last call
    ret,          \* what the last call returned
    evicted,      \* key deleted by evictLRU during the last call, or NoKey
    seen,         \* the texts Search has been called with so far
    pc,           \* the last call of the driving program
    calls,        \* per goroutine: the locals of its call in progress
    mutex,        \* Cache.mutex: the goroutine that holds the write lock
    history,      \* what the calls so far let a caller expect (see NoHistory)
    file,         \* the patterns file NewAhoCorasickMatcher was given
    heap,         \* the backing arrays of the []MatchResult slices, by address
    held,         \* the (text, slice) pairs Search has returned to the caller
    ac,           \* the ac_automaton_t of the C core
    stack         \* the C call stack: the functions entered and not yet left

vars == <<patterns, automaton, initialized, entries, maxSize, stats, now,
          text, ret, evicted, seen, pc, calls, mutex, history, file, heap, held, ac, stack>>

---------------------------------------------------------------------------
(* Strings: code points, UTF-8 bytes, strings.ToLower                      *)

\* utf8.RuneLen for the code points below U+10000
Utf8Len(r) ==
    IF r < 128 THEN 1 ELSE IF r < 2048 THEN 2 ELSE 3

\* utf8.EncodeRune: the bytes of one code point
EncodeRune(r) ==
    IF r < 128 THEN <<r>>
    ELSE IF r < 2048 THEN <<192 + (r \div 64), 128 + (r % 64)>>
    ELSE <<224 + (r \div 4096), 128 + ((r \div 64) % 64), 128 + (r % 64)>>

\* []byte(s): the bytes of a string
RECURSIVE Bytes(_)
Bytes(s) ==
    IF s = <<>> THEN <<>> ELSE EncodeRune(Head(s)) \o Bytes(Tail(s))

\* len(s): the byte length of a string
RECURSIVE ByteLen(_)
ByteLen(s) ==
    IF s = <<>> THEN 0 ELSE Utf8Len(Head(s)) + ByteLen(Tail(s))

\* the index i that `for i, char := range s` yields for the k-th code point
RuneStart(s, k) == ByteLen(SubSeq(s, 1, k - 1))

\* unicode.ToLower on the code points the model uses: ASCII and Latin-1
\* capitals move by 32, KELVIN SIGN U+212A maps to 'k', all else is fixed
ToLowerRune(r) ==
    IF r >= 65 /\ r <= 90 THEN r + 32
    ELSE IF r >= 192 /\ r <= 222 /\ r # 215 THEN r + 32
    ELSE IF r = 8490 THEN 107
    ELSE r

\* strings.ToLower
ToLower(s) == [k \in 1..Len(s) |-> ToLowerRune(s[k])]

---------------------------------------------------------------------------
(* The automaton: buildAhoCorasickAutomaton                                *)

\* the zero [256]int transition table, kept sparse: absent means 0
EmptyNext == [c \in {} |-> 0]

\* ACState{failure: 0, outputs: nil}
NewACState == [next |-> EmptyNext, failure |-> 0, outputs |-> <<>>]

\* states[s].next[c]
Goto(states, s, c) ==
    IF c \in DOMAIN states[s + 1].next THEN states[s + 1].next[c] ELSE 0

\* states[s].next[c] = v
SetNext(states, s, c, v) ==
    [states EXCEPT ![s + 1].next =
        [x \in (DOMAIN @) \cup {c} |-> IF x = c THEN v ELSE @[x]]]

\* the inner loop of the trie construction: walks / creates the edges of
\* one lower-cased pattern from code point k on, skipping code points >= 256
RECURSIVE TrieWalk(_, _, _, _)
TrieWalk(states, state, runes, k) ==
    IF k > Len(runes) THEN [states |-> states, state |-> state]
    ELSE LET c == runes[k] IN
         IF c >= 256 THEN TrieWalk(states, state, runes, k + 1)
         ELSE IF Goto(states, state, c) = 0
              THEN LET new == Len(states)
                       grown == SetNext(Append(states, NewACState), state, c, new)
                   IN  TrieWalk(grown, new, runes, k + 1)
              ELSE TrieWalk(states, Goto(states, state, c), runes, k + 1)

\* the body of the loop over the patterns, for pattern index id: the walk
\* from the root, then the id appended to the outputs of the state reached
AddPattern(states, pats, id) ==
    LET w == TrieWalk(states, 0, ToLower(pats[id + 1]), 1)
    IN  [w.states EXCEPT ![w.state + 1].outputs = Append(@, id)]

\* the loop body for the pattern indices lo..hi-1 in ascending order (the
\* range is halved, and the states built so far, which always hold the
\* root, are looked at first, so that the evaluation of a long list stays
\* shallow)
RECURSIVE AddPatterns(_, _, _, _)
AddPatterns(states, pats, lo, hi) ==
    IF hi <= lo \/ states = <<>> THEN states
    ELSE IF hi = lo + 1 THEN AddPattern(states, pats, lo)
    ELSE LET mid == (lo + hi) \div 2
         IN  AddPatterns(AddPatterns(states, pats, lo, mid), pats, mid, hi)

\* the goto function: every pattern, in list order, from pattern index id on
BuildGoto(states, pats, id) == AddPatterns(states, pats, id, Len(pats))

\* the bytes c = 0..255 with a transition, in the order of `for c := 0; c < 256; c++`
RECURSIVE Ascending(_)
Ascending(S) ==
    IF S = {} THEN <<>>
    ELSE LET m == CHOOSE x \in S : \A y \in S : x <= y
         IN  <<m>> \o Ascending(S \ {m})

\* for state != 0 && states[state].next[c] == 0 { state = states[state].failure }
RECURSIVE FollowFailure(_, _, _)
FollowFailure(states, state, c) ==
    IF state # 0 /\ Goto(states, state, c) = 0
    THEN FollowFailure(states, states[state + 1].failure, c)
    ELSE state

\* a bug that puts the failure state's outputs in front of the state's own
ExtendOutputsInFront(own, copied) == copied \o own

\* append(states[u].outputs, states[failureState].outputs...)
ExtendOutputs(own, copied) == own \o copied

\* a bug that starts the failure loop at r itself instead of r's failure state
RECURSIVE LinkChildrenFromParent(_, _, _, _, _)
LinkChildrenFromParent(states, queue, r, cs, k) ==
    IF k > Len(cs) THEN [states |-> states, queue |-> queue]
    ELSE LET c == cs[k]
             u == Goto(states, r, c)
             state == FollowFailure(states, r, c)
             f == Goto(states, state, c)
             linked == [states EXCEPT ![u + 1].failure = f]
             copied == [linked EXCEPT ![u + 1].outputs =
                           ExtendOutputs(@, linked[f + 1].outputs)]
         IN  LinkChildrenFromParent(copied, Append(queue, u), r, cs, k + 1)

\* the body of the BFS loop for the children of r on the bytes cs[k..]
RECURSIVE LinkChildren(_, _, _, _, _)
LinkChildren(states, queue, r, cs, k) ==
    IF k > Len(cs) THEN [states |-> states, queue |-> queue]
    ELSE LET c == cs[k]
             u == Goto(states, r, c)
             state == FollowFailure(states, states[r + 1].failure, c)
             f == Goto(states, state, c)
             linked == [states EXCEPT ![u + 1].failure = f]
             copied == [linked EXCEPT ![u + 1].outputs =
                           ExtendOutputs(@, linked[f + 1].outputs)]
         IN  LinkChildren(copied, Append(queue, u), r, cs, k + 1)

\* a bug that takes r off the queue and leaves its children unlinked
BfsRoundWithoutLinks(st) ==
    IF st.queue = <<>> THEN st
    ELSE [states |-> st.states, queue |-> Tail(st.queue)]

\* one round of `for len(queue) > 0`: takes r off the queue and links its
\* children; nothing to do on the empty queue
BfsRound(st) ==
    IF st.queue = <<>> THEN st
    ELSE LET r == Head(st.queue)
         IN  LinkChildren(st.states, Tail(st.queue), r,
                          Ascending(DOMAIN st.states[r + 1].next), 1)

\* the loop `for len(queue) > 0`, for n rounds at most (halved so that the
\* evaluation stays shallow)
RECURSIVE BfsRounds(_, _)
BfsRounds(st, n) ==
    IF n <= 0 \/ st.queue = <<>> THEN st
    ELSE IF n = 1 THEN BfsRound(st)
    ELSE BfsRounds(BfsRounds(st, n \div 2), n - (n \div 2))

\* the BFS over the queue: every state enters the queue at most once, so
\* the queue is empty after as many rounds as there are states
BuildFailure(states, queue) ==
    BfsRounds([states |-> states, queue |-> queue], Len(states)).states

\* the depth-1 states, whose failure link stays 0, in byte order
Depth1Queue(states) ==
    LET cs == Ascending(DOMAIN states[1].next)
    IN  [k \in 1..Len(cs) |-> states[1].next[cs[k]]]

\* a bug that returns the trie with every failure link still 0
buildWithoutFailureLinks(pats) == BuildGoto(<<NewACState>>, pats, 0)

buildAhoCorasickAutomaton(pats) ==
    LET trie == BuildGoto(<<NewACState>>, pats, 0)
    IN  BuildFailure(trie, Depth1Queue(trie))

---------------------------------------------------------------------------
(* The scanner: the loop of AhoCorasickMatcher.Search                      *)

Confidence == 95

\* a bug that reports the length of a pattern in characters
RECURSIVE EmitMatchesInChars(_, _, _, _, _, _)
EmitMatchesInChars(states, pats, txt, state, i, j) ==
    LET outs == states[state + 1].outputs IN
    IF j > Len(outs) THEN <<>>
    ELSE LET patternID == outs[j]
             rest == EmitMatchesInChars(states, pats, txt, state, i, j + 1)
         IN  IF patternID < Len(pats)
             THEN LET patternLen == ByteLen(pats[patternID + 1])
                      offset == i - patternLen + 1
                  IN  IF offset >= 0 /\ offset + patternLen <= ByteLen(txt)
                      THEN <<[Offset |-> offset, Length |-> Len(pats[patternID + 1]),
                              PatternID |-> patternID, Confidence |-> Confidence,
                              Text |-> SubSeq(Bytes(txt), offset + 1,
                                              offset + patternLen)]>> \o rest
                      ELSE rest
             ELSE rest

\* the matches appended at byte index i in state `state`, for the output
\* list from position j on
RECURSIVE EmitMatches(_, _, _, _, _, _)
EmitMatches(states, pats, txt, state, i, j) ==
    LET outs == states[state + 1].outputs IN
    IF j > Len(outs) THEN <<>>
    ELSE LET patternID == outs[j]
             rest == EmitMatches(states, pats, txt, state, i, j + 1)
         IN  IF patternID < Len(pats)
             THEN LET patternLen == ByteLen(pats[patternID + 1])
                      offset == i - patternLen + 1
                  IN  IF offset >= 0 /\ offset + patternLen <= ByteLen(txt)
                      THEN <<[Offset |-> offset, Length |-> patternLen,
                              PatternID |-> patternID, Confidence |-> Confidence,
                              Text |-> SubSeq(Bytes(txt), offset + 1,
                                              offset + patternLen)]>> \o rest
                      ELSE rest
             ELSE rest

\* a bug that collects the matches of later positions in front of earlier ones
RECURSIVE ScanFromBackwards(_, _, _, _, _, _)
ScanFromBackwards(states, pats, txt, lowerText, k, state) ==
    IF k > Len(lowerText) THEN <<>>
    ELSE LET c == lowerText[k]
             i == RuneStart(lowerText, k)
         IN  IF c >= 256
             THEN ScanFromBackwards(states, pats, txt, lowerText, k + 1, state)
             ELSE LET s1 == FollowFailure(states, state, c)
                      s2 == Goto(states, s1, c)
                  IN  ScanFromBackwards(states, pats, txt, lowerText, k + 1, s2)
                      \o EmitMatches(states, pats, txt, s2, i, 1)

\* the scan loop from the k-th code point of lowerText on
RECURSIVE ScanFrom(_, _, _, _, _, _)
ScanFrom(states, pats, txt, lowerText, k, state) ==
    IF k > Len(lowerText) THEN <<>>
    ELSE LET c == lowerText[k]
             i == RuneStart(lowerText, k)
         IN  IF c >= 256
             THEN ScanFrom(states, pats, txt, lowerText, k + 1, state)
             ELSE LET s1 == FollowFailure(states, state, c)
                      s2 == Goto(states, s1, c)
                  IN  EmitMatches(states, pats, txt, s2, i, 1)
                      \o ScanFrom(states, pats, txt, lowerText, k + 1, s2)

\* the uncached part of Search: the match list for txt
Scan(states, pats, txt) == ScanFrom(states, pats, txt, ToLower(txt), 1, 0)

---------------------------------------------------------------------------
(* The result cache: src/cache.go                                          *)

\* a ^ b on bytes
RECURSIVE Xor(_, _)
Xor(a, b) ==
    IF a = 0 THEN b
    ELSE IF b = 0 THEN a
    ELSE ((a + b) % 2) + 2 * Xor(a \div 2, b \div 2)

\* h * 0x100000001b3 mod 2^64 on eight little-endian byte limbs, from limb k
\* on: 0x100000001b3 = 2^40 + 435, so limb k takes h[k] * 435 and h[k - 5]
RECURSIVE MulPrime(_, _, _)
MulPrime(h, k, carry) ==
    IF k > Len(h) THEN <<>>
    ELSE LET v == h[k] * 435 + (IF k > 5 THEN h[k - 5] ELSE 0) + carry
         IN  <<v % 256>> \o MulPrime(h, k + 1, v \div 256)

\* fnv.New64a: the offset basis 0xcbf29ce484222325, least significant byte first
FnvOffset64 == <<37, 35, 34, 132, 228, 156, 242, 203>>

\* h.Write(bytes): hash ^= b; hash *= prime, byte by byte
RECURSIVE FnvWrite(_, _)
FnvWrite(h, bs) ==
    IF bs = <<>> THEN h
    ELSE FnvWrite(MulPrime([h EXCEPT ![1] = Xor(@, Head(bs))], 1, 0), Tail(bs))

\* Cache.hash: the 64-bit FNV-1a of the input's bytes (as its eight bytes)
hash(input) == FnvWrite(FnvOffset64, Bytes(input))

NoKey == <<>>

\* make(map[uint64]*CacheEntry)
EmptyEntries == [k \in {} |-> 0]

ZeroStats == [Hits |-> 0, Misses |-> 0, Evictions |-> 0, TotalEntries |-> 0]

\* len(c.entries)
EntryCount(es) == Cardinality(DOMAIN es)

\* the keys evictLRU's loop can end with: an entry no other was created
\* before (the map is ranged over in an unspecified order)
OldestKeys(es) ==
    {k \in DOMAIN es : \A j \in DOMAIN es : es[k].Created <= es[j].Created}

\* a bug that returns no match list on a hit
GetWithoutResults(es, st, input) ==
    LET key == hash(input) IN
    IF key \in DOMAIN es
    THEN [entries |-> [es EXCEPT ![key].Hits = @ + 1],
          stats |-> [st EXCEPT !.Hits = @ + 1],
          ret |-> [results |-> <<>>, duration |-> es[key].Duration,
                   found |-> TRUE]]
    ELSE [entries |-> es,
          stats |-> [st EXCEPT !.Misses = @ + 1],
          ret |-> [results |-> <<>>, duration |-> 0, found |-> FALSE]]

\* a bug that counts every call as a miss
GetCountingMissesOnly(es, st, input) ==
    LET key == hash(input) IN
    IF key \in DOMAIN es
    THEN [entries |-> [es EXCEPT ![key].Hits = @ + 1],
          stats |-> [st EXCEPT !.Misses = @ + 1],
          ret |-> [results |-> es[key].Results, duration |-> es[key].Duration,
                   found |-> TRUE]]
    ELSE [entries |-> es,
          stats |-> [st EXCEPT !.Misses = @ + 1],
          ret |-> [results |-> <<>>, duration |-> 0, found |-> FALSE]]

\* a true LRU: a hit makes the entry the most recently created one
GetRefreshingCreated(es, st, input) ==
    LET key == hash(input) IN
    IF key \in DOMAIN es
    THEN [entries |-> [es EXCEPT ![key].Hits = @ + 1,
                                 ![key].Created =
                                     1 + CHOOSE t \in {es[k].Created : k \in DOMAIN es} :
                                             \A k \in DOMAIN es : es[k].Created <= t],
          stats |-> [st EXCEPT !.Hits = @ + 1],
          ret |-> [results |-> es[key].Results, duration |-> es[key].Duration,
                   found |-> TRUE]]
    ELSE [entries |-> es,
          stats |-> [st EXCEPT !.Misses = @ + 1],
          ret |-> [results |-> <<>>, duration |-> 0, found |-> FALSE]]

\* a lookup that also compares the stored input with the text asked for
GetComparingInput(es, st, input) ==
    LET key == hash(input) IN
    IF key \in DOMAIN es /\ es[key].Input = input
    THEN [entries |-> [es EXCEPT ![key].Hits = @ + 1],
          stats |-> [st EXCEPT !.Hits = @ + 1],
          ret |-> [results |-> es[key].Results, duration |-> es[key].Duration,
                   found |-> TRUE]]
    ELSE [entries |-> es,
          stats |-> [st EXCEPT !.Misses = @ + 1],
          ret |-> [results |-> <<>>, duration |-> 0, found |-> FALSE]]

\* Cache.Get: [entries, stats, ret]
Get(es, st, input) ==
    LET key == hash(input) IN
    IF key \in DOMAIN es
    THEN [entries |-> [es EXCEPT ![key].Hits = @ + 1],
          stats |-> [st EXCEPT !.Hits = @ + 1],
          ret |-> [results |-> es[key].Results, duration |-> es[key].Duration,
                   found |-> TRUE]]
    ELSE [entries |-> es,
          stats |-> [st EXCEPT !.Misses = @ + 1],
          ret |-> [results |-> <<>>, duration |-> 0, found |-> FALSE]]

\* a bug that leaves an entry already stored under the key as it is
PutKeepingStored(es, st, input, results, duration, created, victim) ==
    LET key == hash(input)
        entry == [Input |-> input, Results |-> results, Duration |-> duration,
                  Created |-> created, Hits |-> 0]
        kept == IF victim = NoKey THEN es
                ELSE [k \in (DOMAIN es) \ {victim} |-> es[k]]
        evs == IF victim = NoKey THEN st.Evictions ELSE st.Evictions + 1
    IN  [entries |-> [k \in (DOMAIN kept) \cup {key} |->
                          IF k \in DOMAIN kept THEN kept[k] ELSE entry],
         stats |-> [st EXCEPT !.Evictions = evs, !.TotalEntries = @ + 1]]

\* Cache.Put with evictLRU ending on `victim` (NoKey: nothing to evict, or
\* no eviction needed): [entries, stats]
Put(es, st, input, results, duration, created, victim) ==
    LET key == hash(input)
        entry == [Input |-> input, Results |-> results, Duration |-> duration,
                  Created |-> created, Hits |-> 0]
        kept == IF victim = NoKey THEN es
                ELSE [k \in (DOMAIN es) \ {victim} |-> es[k]]
        evs == IF victim = NoKey THEN st.Evictions ELSE st.Evictions + 1
    IN  [entries |-> [k \in (DOMAIN kept) \cup {key} |->
                          IF k = key THEN entry ELSE kept[k]],
         stats |-> [st EXCEPT !.Evictions = evs, !.TotalEntries = @ + 1]]

\* whether Put calls evictLRU
NeedsEviction(es, size) == EntryCount(es) >= size

\* the victims evictLRU may delete when Put runs on es
Victims(es, size) ==
    IF NeedsEviction(es, size) /\ DOMAIN es # {} THEN OldestKeys(es) ELSE {NoKey}

\* Cache.GetStats
GetStats(es, st) ==
    [Hits |-> st.Hits, Misses |-> st.Misses, Evictions |-> st.Evictions,
     TotalEntries |-> EntryCount(es)]

\* the greatest common divisor of a >= 0 and b > 0
RECURSIVE Gcd(_, _)
Gcd(a, b) == IF a % b = 0 THEN b ELSE Gcd(b, a % b)

\* the float64 value float64(n) / float64(d) * factor for integers n >= 0,
\* d > 0: the correctly rounded quotient depends on n / d alone, so the
\* value is named by the fraction in lowest terms and the factor; 0.0 is
\* the value of 0 / d times any factor
Float64Scaled(n, d, factor) ==
    IF n = 0 THEN [num |-> 0, den |-> 1, factor |-> 1]
    ELSE [num |-> n \div Gcd(n, d), den |-> d \div Gcd(n, d), factor |-> factor]

\* the factor 100.0 of HitRatio
Percent == 100

\* a bug that returns the fraction itself
HitRatioAsFraction(st) ==
    LET hits == st.Hits
        misses == st.Misses
        total == hits + misses
    IN  IF total = 0 THEN Float64Scaled(0, 1, 1)
        ELSE Float64Scaled(hits, total, 1)

\* Cache.HitRatio
HitRatio(st) ==
    LET hits == st.Hits
        misses == st.Misses
        total == hits + misses
    IN  IF total = 0 THEN Float64Scaled(0, 1, 1)
        ELSE Float64Scaled(hits, total, Percent)

---------------------------------------------------------------------------
(* Inputs                                                                  *)

\* longest total length (in code points) of a pattern list over {a, b}
MaxPatternChars == 4
\* longest text over {a, b}
MaxTextLen == 3
\* the same two bounds for pattern lists and texts over a wide alphabet
MaxWidePatternChars == 2
MaxWideTextLen == 2
\* the clock value after which no further call is started
MaxClock == 3
\* the number of hits / misses after which no further Get is started
MaxCount == 2
\* the largest small cache size
MaxCacheSize == 2
\* the number of Puts, and of Gets between two Clears, that goroutines start
MaxCalls == 2
\* the number of Searches that goroutines start
MaxSearches == 3

\* 'a', 'b'
PlainChars == {97, 98}
\* 'a', 'A' and one of: U+00E9 (two bytes, below 256), U+20AC (three bytes,
\* above 255), U+212A KELVIN SIGN (three bytes, lower-cases to the byte 'k')
WideAlphabets == {{97, 65, x} : x \in {233, 8364, 8490}}

\* the strings of exactly n code points over S
StrsOfLen(S, n) == [1..n -> S]

\* the strings of at most n code points over S
Strs(S, n) == UNION {StrsOfLen(S, m) : m \in 0..n}

\* the lists of non-empty patterns over S with n code points in total
RECURSIVE ListsOfTotal(_, _)
ListsOfTotal(S, n) ==
    IF n = 0 THEN {<<>>}
    ELSE UNION {{<<p>> \o L : p \in StrsOfLen(S, m), L \in ListsOfTotal(S, n - m)}
                : m \in 1..n}

\* the non-empty lists of non-empty patterns over S, at most n code points
PatternLists(S, n) == UNION {ListsOfTotal(S, m) : m \in 1..n}

\* the (pattern list, text) pairs the scanner is run on
ScanInputs ==
    (PatternLists(PlainChars, MaxPatternChars) \X Strs(PlainChars, MaxTextLen))
    \cup UNION {PatternLists(S, MaxWidePatternChars) \X Strs(S, MaxWideTextLen)
                : S \in WideAlphabets}

---------------------------------------------------------------------------
(* Operations                                                              *)

\* NewCache(10000) in NewAhoCorasickMatcher
EngineCacheSize == 10000

NoRet == [results |-> <<>>, duration |-> 0, found |-> FALSE]

\* no patterns file: NewAhoCorasickMatcher("")
NoFile == [name |-> "", status |-> "ok", lines |-> <<>>]

\* no automaton of the C core: the pointer is NULL
NoAc == [states |-> <<>>, state_count |-> 0, patterns |-> <<>>,
         simd_enabled |-> FALSE, initialized |-> FALSE]

\* the goroutines that call the cache concurrently
Goroutines == {"g1", "g2"}

\* no entry: the nil *CacheEntry
NoEntry == [Input |-> <<>>, Results |-> <<>>, Duration |-> 0, Created |-> 0,
            Hits |-> 0]

\* a goroutine outside every call (inSearch: the call of the cache was made
\* by AhoCorasickMatcher.Search)
Idle == [at |-> "idle", input |-> <<>>, key |-> NoKey, entry |-> NoEntry,
         exists |-> FALSE, expect |-> NoEntry, inSearch |-> FALSE]

NoCalls == [g \in Goroutines |-> Idle]

\* sync.RWMutex with no writer
Unlocked == "unlocked"

\* no Clear has returned yet (cleared); no Get or Put has started after the
\* last Clear returned (Gets, Puts); none was in progress when the last
\* Clear took the lock or has started since (LiveGets, LivePuts); and no Put
\* has returned (lastPut: per key the entry of the last Put that returned,
\* unless evictLRU or Clear has deleted it since)
NoHistory == [cleared |-> FALSE, Gets |-> 0, Puts |-> 0, LiveGets |-> 0,
              LivePuts |-> 0, lastPut |-> EmptyEntries]

\* AhoCorasickMatcher.Search(T); on a miss the scan takes d ticks of the clock
Search(T, d) ==
    /\ initialized
    /\ LET g == Get(entries, stats, T) IN
       /\ g.stats.Hits <= MaxCount /\ g.stats.Misses <= MaxCount
       /\ IF g.ret.found
          THEN /\ entries' = g.entries
               /\ stats' = g.stats
               /\ ret' = g.ret
               /\ evicted' = NoKey
               /\ now' = now
          ELSE /\ now + d <= MaxClock
               /\ \E victim \in Victims(g.entries, maxSize) :
                   LET results == Scan(automaton, patterns, T)
                       p == Put(g.entries, g.stats, T, results, d, now + d, victim)
                   IN  /\ entries' = p.entries
                       /\ stats' = p.stats
                       /\ ret' = [results |-> results, duration |-> d,
                                  found |-> FALSE]
                       /\ evicted' = victim
                       /\ now' = now + d
    /\ text' = T
    /\ seen' = seen \cup {T}
    /\ pc' = "Search"
    /\ UNCHANGED <<ac, stack, heap, held, file, patterns, automaton, initialized, maxSize, calls, mutex, history>>

\* Cache.Put(input, results, duration), called one tick after the last call
CachePut(input, results, duration) ==
    /\ now < MaxClock
    /\ \E victim \in Victims(entries, maxSize) :
          LET p == Put(entries, stats, input, results, duration, now + 1, victim)
          IN  /\ entries' = p.entries
              /\ stats' = p.stats
              /\ evicted' = victim
    /\ now' = now + 1
    /\ text' = input
    /\ ret' = NoRet
    /\ pc' = "Put"
    /\ UNCHANGED <<ac, stack, heap, held, file, patterns, automaton, initialized, maxSize, seen, calls, mutex, history>>

\* Cache.Get(input)
CacheGet(input) ==
    /\ LET g == Get(entries, stats, input)
       IN  /\ g.stats.Hits <= MaxCount /\ g.stats.Misses <= MaxCount
           /\ entries' = g.entries
           /\ stats' = g.stats
           /\ ret' = g.ret
    /\ evicted' = NoKey
    /\ text' = input
    /\ pc' = "Get"
    /\ UNCHANGED <<ac, stack, heap, held, file, patterns, automaton, initialized, maxSize, now, seen, calls, mutex, history>>

\* Cache.Clear()
Clear ==
    /\ entries' = EmptyEntries
    /\ stats' = ZeroStats
    /\ evicted' = NoKey
    /\ ret' = NoRet
    /\ pc' = "Clear"
    /\ UNCHANGED <<ac, stack, heap, held, file, patterns, automaton, initialized, maxSize, now, text, seen, calls, mutex, history>>

\* the state after NewAhoCorasickMatcher, with the text to search at hand
InitScan ==
    \E in \in ScanInputs :
        /\ patterns = in[1]
        /\ automaton = buildAhoCorasickAutomaton(in[1])
        /\ initialized = TRUE
        /\ entries = EmptyEntries
        /\ maxSize = EngineCacheSize
        /\ stats = ZeroStats
        /\ now = 0
        /\ text = in[2]
        /\ ret = NoRet
        /\ evicted = NoKey
        /\ seen = {}
        /\ pc = "ready"
        /\ calls = NoCalls
        /\ mutex = Unlocked
        /\ history = NoHistory
        /\ heap = <<>>
        /\ held = <<>>
        /\ ac = NoAc
        /\ stack = <<>>
        /\ file = NoFile

\* one search of the text on the fresh engine
SearchOnce == pc = "ready" /\ Search(text, 1)

NextScan == SearchOnce

SpecScan == InitScan /\ [][NextScan]_vars

\* the patterns of scenario 1: "he said", "she said"
ScenarioPatterns == <<<<104, 101, 32, 115, 97, 105, 100>>,
                      <<115, 104, 101, 32, 115, 97, 105, 100>>>>

\* the text of scenario 1: "he said she said"
ScenarioText == <<104, 101, 32, 115, 97, 105, 100, 32, 115, 104, 101, 32, 115, 97, 105, 100>>

\* the texts of the scenario runs: every piece of the scenario text
ScenarioTexts ==
    {SubSeq(ScenarioText, a, b) : a \in 1..(Len(ScenarioText) + 1),
                                  b \in 0..Len(ScenarioText)}

\* the state after the build from the scenario's patterns, with the text to
\* search at hand
InitScenario ==
    /\ patterns = ScenarioPatterns
    /\ automaton = buildAhoCorasickAutomaton(ScenarioPatterns)
    /\ initialized = TRUE
    /\ entries = EmptyEntries
    /\ maxSize = EngineCacheSize
    /\ stats = ZeroStats
    /\ now = 0
    /\ text \in ScenarioTexts
    /\ ret = NoRet
    /\ evicted = NoKey
    /\ seen = {}
    /\ pc = "ready"
    /\ calls = NoCalls
    /\ mutex = Unlocked
    /\ history = NoHistory
    /\ heap = <<>>
    /\ held = <<>>
    /\ ac = NoAc
    /\ stack = <<>>
    /\ file = NoFile

SpecScenario == InitScenario /\ [][NextScan]_vars

MaxEdgelessPatterns == 2

\* patterns with and without trie edges: "", "a", U+20AC (above 255)
EdgelessPatterns == {<<>>, <<97>>, <<8364>>}

\* the (pattern list, text) pairs of the builds from such patterns: lists
\* of one or two of them, texts over 'a' and U+20AC
EdgelessInputs ==
    (UNION {[1..n -> EdgelessPatterns] : n \in 1..MaxEdgelessPatterns})
    \X Strs({97, 8364}, MaxWideTextLen)

\* the state after buildAhoCorasickAutomaton on such a list, in an engine
\* with the text to search at hand
InitEdgeless ==
    \E in \in EdgelessInputs :
        /\ patterns = in[1]
        /\ automaton = buildAhoCorasickAutomaton(in[1])
        /\ initialized = TRUE
        /\ entries = EmptyEntries
        /\ maxSize = EngineCacheSize
        /\ stats = ZeroStats
        /\ now = 0
        /\ text = in[2]
        /\ ret = NoRet
        /\ evicted = NoKey
        /\ seen = {}
        /\ pc = "ready"
        /\ calls = NoCalls
        /\ mutex = Unlocked
        /\ history = NoHistory
        /\ heap = <<>>
        /\ held = <<>>
        /\ ac = NoAc
        /\ stack = <<>>
        /\ file = NoFile

SpecEdgeless == InitEdgeless /\ [][NextScan]_vars

\* the fallback list: "he said", "she said", "she told", "he told",
\* "i heard", "according to", "reportedly", "allegedly", "it was reported",
\* "sources say", "witnesses claim", "testimony indicates",
\* "didn't you say", "you mentioned", "as stated by", "witness testified",
\* "plaintiff claims", "defendant stated", "court records show",
\* "evidence suggests"
LegalPatterns == <<
    <<104, 101, 32, 115, 97, 105, 100>>,
    <<115, 104, 101, 32, 115, 97, 105, 100>>,
    <<115, 104, 101, 32, 116, 111, 108, 100>>,
    <<104, 101, 32, 116, 111, 108, 100>>,
    <<105, 32, 104, 101, 97, 114, 100>>,
    <<97, 99, 99, 111, 114, 100, 105, 110, 103, 32, 116, 111>>,
    <<114, 101, 112, 111, 114, 116, 101, 100, 108, 121>>,
    <<97, 108, 108, 101, 103, 101, 100, 108, 121>>,
    <<105, 116, 32, 119, 97, 115, 32, 114, 101, 112, 111, 114, 116, 101, 100>>,
    <<115, 111, 117, 114, 99, 101, 115, 32, 115, 97, 121>>,
    <<119, 105, 116, 110, 101, 115, 115, 101, 115, 32, 99, 108, 97, 105, 109>>,
    <<116, 101, 115, 116, 105, 109, 111, 110, 121, 32, 105, 110, 100, 105, 99, 97, 116, 101, 115>>,
    <<100, 105, 100, 110, 39, 116, 32, 121, 111, 117, 32, 115, 97, 121>>,
    <<121, 111, 117, 32, 109, 101, 110, 116, 105, 111, 110, 101, 100>>,
    <<97, 115, 32, 115, 116, 97, 116, 101, 100, 32, 98, 121>>,
    <<119, 105, 116, 110, 101, 115, 115, 32, 116, 101, 115, 116, 105, 102, 105, 101, 100>>,
    <<112, 108, 97, 105, 110, 116, 105, 102, 102, 32, 99, 108, 97, 105, 109, 115>>,
    <<100, 101, 102, 101, 110, 100, 97, 110, 116, 32, 115, 116, 97, 116, 101, 100>>,
    <<99, 111, 117, 114, 116, 32, 114, 101, 99, 111, 114, 100, 115, 32, 115, 104, 111, 119>>,
    <<101, 118, 105, 100, 101, 110, 99, 101, 32, 115, 117, 103, 103, 101, 115, 116, 115>>>>

\* unicode.IsSpace on the code points below 256
IsSpace(r) == r \in {9, 10, 11, 12, 13, 32, 133, 160}

\* strings.TrimSpace
RECURSIVE TrimSpace(_)
TrimSpace(s) ==
    IF s = <<>> THEN s
    ELSE IF IsSpace(Head(s)) THEN TrimSpace(Tail(s))
    ELSE IF IsSpace(s[Len(s)]) THEN TrimSpace(SubSeq(s, 1, Len(s) - 1))
    ELSE s

\* line != "" && !strings.HasPrefix(line, "#")
KeepLine(line) == line # <<>> /\ Head(line) # 35

\* the scanner loop of loadPatternsFromFile over the lines from k on
RECURSIVE LoadLines(_, _)
LoadLines(lines, k) ==
    IF k > Len(lines) THEN <<>>
    ELSE LET line == TrimSpace(lines[k])
         IN  IF KeepLine(line) THEN <<line>> \o LoadLines(lines, k + 1)
             ELSE LoadLines(lines, k + 1)

\* the nil error
NoError == "nil"

\* loadPatternsFromFile: os.Open or the scanner may fail
loadPatternsFromFile(f) ==
    IF f.status = "cannot open" THEN [patterns |-> <<>>, err |-> "open"]
    ELSE IF f.status = "cannot read" THEN [patterns |-> <<>>, err |-> "read"]
    ELSE [patterns |-> LoadLines(f.lines, 1), err |-> NoError]

\* the patterns NewAhoCorasickMatcher hands to the build
SelectPatterns(f) ==
    IF f.name # ""
    THEN LET l == loadPatternsFromFile(f)
         IN  IF l.err # NoError THEN LegalPatterns ELSE l.patterns
    ELSE LegalPatterns

\* the error of buildAhoCorasickAutomaton: every return is `return ac, nil`
BuildError(pats) == NoError

\* NewAhoCorasickMatcher(patternsFile)
NewAhoCorasickMatcher ==
    /\ pc = "start"
    /\ LET pats == SelectPatterns(file)
           err == BuildError(pats)
       IN  IF err # NoError
           THEN /\ ret' = [matcher |-> FALSE, err |-> err]
                /\ UNCHANGED <<patterns, automaton, initialized, maxSize>>
           ELSE /\ patterns' = pats
                /\ automaton' = buildAhoCorasickAutomaton(pats)
                /\ initialized' = TRUE
                /\ maxSize' = EngineCacheSize
                /\ ret' = [matcher |-> TRUE, err |-> NoError]
    /\ pc' = "NewAhoCorasickMatcher"
    /\ UNCHANGED <<ac, stack, heap, held, file, entries, stats, now, text, evicted, seen, calls,
                   mutex, history>>

\* a search on the engine the constructor returned
SearchConstructed ==
    /\ pc = "NewAhoCorasickMatcher"
    /\ ret.err = NoError
    /\ Search(text, 1)

MaxFileLines == 3

\* the lines of the patterns files: "", "# a", "a", " he said", "sources say "
FileLines == {<<>>, <<35, 32, 97>>, <<97>>, <<32, 104, 101, 32, 115, 97, 105, 100>>,
              <<115, 111, 117, 114, 99, 101, 115, 32, 115, 97, 121, 32>>}

\* the files: none named, one that cannot be opened, one the scanner fails
\* on, and the files of up to MaxFileLines lines
PatternFiles ==
    {NoFile,
     [name |-> "patterns.txt", status |-> "cannot open", lines |-> <<>>],
     [name |-> "patterns.txt", status |-> "cannot read", lines |-> <<>>]}
    \cup {[name |-> "patterns.txt", status |-> "ok", lines |-> ls] :
             ls \in UNION {[1..n -> FileLines] : n \in 0..MaxFileLines}}

\* "he said so", "sources say a"
ConstructTexts == {<<104, 101, 32, 115, 97, 105, 100, 32, 115, 111>>,
                   <<115, 111, 117, 114, 99, 101, 115, 32, 115, 97, 121, 32, 97>>}

\* the state before NewAhoCorasickMatcher: no engine, no cache
InitConstruct ==
    /\ file \in PatternFiles
    /\ text \in ConstructTexts
    /\ patterns = <<>>
    /\ automaton = <<>>
    /\ initialized = FALSE
    /\ entries = EmptyEntries
    /\ maxSize = 0
    /\ stats = ZeroStats
    /\ now = 0
    /\ ret = NoRet
    /\ evicted = NoKey
    /\ seen = {}
    /\ pc = "start"
    /\ calls = NoCalls
    /\ mutex = Unlocked
    /\ history = NoHistory
    /\ heap = <<>>
    /\ held = <<>>
    /\ ac = NoAc
    /\ stack = <<>>

NextConstruct == NewAhoCorasickMatcher \/ SearchConstructed

SpecConstruct == InitConstruct /\ [][NextConstruct]_vars

\* the pattern lists and texts of the engine runs: "a"; "ab", "b"
EnginePatternLists == {<<<<97>>>>, <<<<97, 98>>, <<98>>>>}
\* "a", "b", "ab"
EngineTexts == {<<97>>, <<98>>, <<97, 98>>}
\* the ticks a scan may take
Durations == {1, 2}
\* the cache sizes of the engine runs: 10000 as in NewAhoCorasickMatcher,
\* and small ones, with which the runs reach a full cache
EngineCacheSizes == (1..MaxCacheSize) \cup {EngineCacheSize}

\* the state after NewAhoCorasickMatcher
InitEngine ==
    /\ patterns \in EnginePatternLists
    /\ automaton = buildAhoCorasickAutomaton(patterns)
    /\ initialized = TRUE
    /\ entries = EmptyEntries
    /\ maxSize \in EngineCacheSizes
    /\ stats = ZeroStats
    /\ now = 0
    /\ text = <<>>
    /\ ret = NoRet
    /\ evicted = NoKey
    /\ seen = {}
    /\ pc = "ready"
    /\ calls = NoCalls
    /\ mutex = Unlocked
    /\ history = NoHistory
    /\ heap = <<>>
    /\ held = <<>>
    /\ ac = NoAc
    /\ stack = <<>>
    /\ file = NoFile

NextEngine ==
    \/ \E T \in EngineTexts, d \in Durations : Search(T, d)
    \/ Clear

SpecEngine == InitEngine /\ [][NextEngine]_vars

\* the nil slice: `var results []MatchResult` with nothing appended
NilSlice == [array |-> 0, len |-> 0]

\* the slice that append has built for the match list ms: nil when ms is
\* empty, else a backing array at the fresh address a
NewSlice(ms, a) == IF ms = <<>> THEN NilSlice ELSE [array |-> a, len |-> Len(ms)]

\* the elements of the slice sl
Elements(sl) == IF sl.array = 0 THEN <<>> ELSE SubSeq(heap[sl.array], 1, sl.len)

\* AhoCorasickMatcher.Search(T) with the match lists as slices: Put gets
\* and stores the slice `results`, Get returns the slice entry.Results,
\* Search returns the slice it got or built
SearchSlices(T, d) ==
    /\ initialized
    /\ LET g == Get(entries, stats, T) IN
       /\ g.stats.Hits <= MaxCount /\ g.stats.Misses <= MaxCount
       /\ IF g.ret.found
          THEN /\ entries' = g.entries
               /\ stats' = g.stats
               /\ ret' = g.ret
               /\ evicted' = NoKey
               /\ now' = now
               /\ heap' = heap
               /\ held' = Append(held, <<T, g.ret.results>>)
          ELSE /\ now + d <= MaxClock
               /\ \E victim \in Victims(g.entries, maxSize) :
                   LET ms == Scan(automaton, patterns, T)
                       results == NewSlice(ms, Len(heap) + 1)
                       p == Put(g.entries, g.stats, T, results, d, now + d, victim)
                   IN  /\ entries' = p.entries
                       /\ stats' = p.stats
                       /\ ret' = [results |-> results, duration |-> d,
                                  found |-> FALSE]
                       /\ evicted' = victim
                       /\ now' = now + d
                       /\ heap' = IF ms = <<>> THEN heap ELSE Append(heap, ms)
                       /\ held' = Append(held, <<T, results>>)
    /\ text' = T
    /\ seen' = seen \cup {T}
    /\ pc' = "Search"
    /\ UNCHANGED <<ac, stack, file, patterns, automaton, initialized, maxSize,
                   calls, mutex, history>>

\* the caller changes element k of a slice it got from Search (it sets the
\* confidence to 0)
CallerWrites(n, k) ==
    /\ n \in 1..Len(held)
    /\ k \in 1..held[n][2].len
    /\ heap[held[n][2].array][k].Confidence # 0
    /\ heap' = [heap EXCEPT ![held[n][2].array][k].Confidence = 0]
    /\ pc' = "CallerWrites"
    /\ UNCHANGED <<ac, stack, held, file, patterns, automaton, initialized, entries,
                   maxSize, stats, now, text, ret, evicted, seen, calls, mutex,
                   history>>

MaxHeld == 4

NextSlices ==
    \/ \E T \in EngineTexts : SearchSlices(T, 1)
    \/ \E n \in 1..MaxHeld, k \in 1..MaxTextLen : CallerWrites(n, k)

SpecSlices == InitEngine /\ [][NextSlices]_vars

\* the inputs and match lists of the calls on the cache alone
CacheInputs == {<<97>>, <<98>>, <<97, 98>>}
\* the (match list, duration) pairs stored: no match in 1 tick, one match in 2
Payloads ==
    {[results |-> <<>>, duration |-> 1],
     [results |-> <<[Offset |-> 0, Length |-> 1, PatternID |-> 0,
                     Confidence |-> Confidence, Text |-> <<97>>]>>,
      duration |-> 2]}

\* the state after NewCache(n)
InitCache ==
    /\ patterns = <<>>
    /\ automaton = <<NewACState>>
    /\ initialized = FALSE
    /\ entries = EmptyEntries
    /\ maxSize \in 0..MaxCacheSize
    /\ stats = ZeroStats
    /\ now = 0
    /\ text = <<>>
    /\ ret = NoRet
    /\ evicted = NoKey
    /\ seen = {}
    /\ pc = "new"
    /\ calls = NoCalls
    /\ mutex = Unlocked
    /\ history = NoHistory
    /\ heap = <<>>
    /\ held = <<>>
    /\ ac = NoAc
    /\ stack = <<>>
    /\ file = NoFile

NextCache ==
    \/ \E input \in CacheInputs, p \in Payloads :
          CachePut(input, p.results, p.duration)
    \/ \E input \in CacheInputs : CacheGet(input)
    \/ Clear

SpecCache == InitCache /\ [][NextCache]_vars

\* the state after NewCache(n) with n >= 1
InitSizedCache == InitCache /\ maxSize >= 1

SpecSizedCache == InitSizedCache /\ [][NextCache]_vars

\* the texts of the hit-ratio runs, in the order of their first search:
\* "a", "b", "ab"
RatioTexts == <<<<97>>, <<98>>, <<97, 98>>>>

\* a search of the next text that has not been searched yet, as long as no
\* text has been searched twice
SearchDistinct(d) ==
    /\ stats.Hits + stats.Misses = Cardinality(seen)
    /\ Cardinality(seen) < Len(RatioTexts)
    /\ Search(RatioTexts[Cardinality(seen) + 1], d)

\* one more search of the first text
SearchFirstAgain(d) ==
    /\ seen # {}
    /\ Search(RatioTexts[1], d)

\* matcher.cache.HitRatio()
CallHitRatio ==
    /\ pc # "HitRatio"
    /\ ret' = [ratio |-> HitRatio(stats)]
    /\ pc' = "HitRatio"
    /\ UNCHANGED <<ac, stack, heap, held, file, patterns, automaton, initialized, entries, maxSize, stats,
                   now, text, evicted, seen, calls, mutex, history>>

NextRatio ==
    \/ \E d \in Durations : SearchDistinct(d)
    \/ \E d \in Durations : SearchFirstAgain(d)
    \/ CallHitRatio

SpecRatio == InitEngine /\ [][NextRatio]_vars

---------------------------------------------------------------------------
(* The cache called from several goroutines: the steps of Get, Put, Clear  *)
(* between which other goroutines can run.  What a call does while it      *)
(* holds the mutex is one step, except for Clear, whose atomic stores to   *)
(* Hits and Misses interleave with the atomic adds of Get, which holds no  *)
(* lock when it counts.                                                    *)

\* the entry a Get that starts now is to read: the one of the last Put on
\* its key that has returned
Expected(key) ==
    IF key \in DOMAIN history.lastPut THEN history.lastPut[key] ELSE NoEntry

\* lastPut once the entries under `keys` have been deleted
Forget(last, keys) == [k \in (DOMAIN last) \ keys |-> last[k]]

\* lastPut once `entry` has been stored under `key`
Remember(last, key, entry) ==
    [k \in (DOMAIN last) \cup {key} |-> IF k = key THEN entry ELSE last[k]]

\* what the Gets in progress expect, once the entries under `keys` have
\* been replaced or deleted
Disturb(cs, keys) ==
    [g \in Goroutines |->
        IF cs[g].key \in keys THEN [cs[g] EXCEPT !.expect = NoEntry] ELSE cs[g]]

\* Get is called: key := c.hash(input)
GetCall(g, input) ==
    /\ calls[g].at = "idle"
    /\ history.Gets < MaxCalls
    /\ LET key == hash(input) IN
       calls' = [calls EXCEPT ![g] =
                    [at |-> "GetLookup", input |-> input, key |-> key,
                     entry |-> NoEntry, exists |-> FALSE,
                     expect |-> Expected(key), inSearch |-> FALSE]]
    /\ history' = [history EXCEPT !.Gets = @ + 1, !.LiveGets = @ + 1]
    /\ UNCHANGED <<ac, stack, heap, held, file, patterns, automaton, initialized, entries, maxSize, stats,
                   now, text, ret, evicted, seen, pc, mutex>>

\* c.mutex.RLock(); entry, exists := c.entries[key]; c.mutex.RUnlock()
GetLookup(g) ==
    /\ calls[g].at = "GetLookup"
    /\ mutex = Unlocked
    /\ LET key == calls[g].key IN
       calls' = [calls EXCEPT ![g].exists = key \in DOMAIN entries,
                              ![g].entry = IF key \in DOMAIN entries
                                           THEN entries[key] ELSE NoEntry,
                              ![g].at = "GetCount"]
    /\ UNCHANGED <<ac, stack, heap, held, file, patterns, automaton, initialized, entries, maxSize, stats,
                   now, text, ret, evicted, seen, pc, mutex, history>>

\* the rest of Get: the atomic adds and the return.  entry is a pointer:
\* its Hits are those of the map's entry only while the map still holds it.
\* After a miss, Search goes on with its scan
GetCount(g) ==
    /\ calls[g].at = "GetCount"
    /\ LET c == calls[g] IN
       IF c.exists
       THEN /\ entries' = IF c.key \in DOMAIN entries
                             /\ entries[c.key].Created = c.entry.Created
                          THEN [entries EXCEPT ![c.key].Hits = @ + 1]
                          ELSE entries
            /\ stats' = [stats EXCEPT !.Hits = @ + 1]
            /\ ret' = [results |-> c.entry.Results,
                       duration |-> c.entry.Duration, found |-> TRUE]
       ELSE /\ entries' = entries
            /\ stats' = [stats EXCEPT !.Misses = @ + 1]
            /\ ret' = NoRet
    /\ calls' = IF calls[g].inSearch /\ ~calls[g].exists
                THEN [calls EXCEPT ![g].at = "SearchScan"]
                ELSE [calls EXCEPT ![g] = Idle]
    /\ UNCHANGED <<ac, stack, heap, held, file, patterns, automaton, initialized, maxSize, now, text,
                   evicted, seen, pc, mutex, history>>

\* Put is called: the key and the entry, with Created: time.Now()
PutCall(g, input, results, duration) ==
    /\ calls[g].at = "idle"
    /\ now < MaxCalls
    /\ now' = now + 1
    /\ calls' = [calls EXCEPT ![g] =
                    [at |-> "PutStore", input |-> input, key |-> hash(input),
                     entry |-> [Input |-> input, Results |-> results,
                                Duration |-> duration, Created |-> now + 1,
                                Hits |-> 0],
                     exists |-> FALSE, expect |-> NoEntry, inSearch |-> FALSE]]
    /\ history' = [history EXCEPT !.Puts = @ + 1, !.LivePuts = @ + 1]
    /\ UNCHANGED <<ac, stack, heap, held, file, patterns, automaton, initialized, entries, maxSize, stats,
                   text, ret, evicted, seen, pc, mutex>>

\* the rest of Put, under the write lock: evict, store, count, return
PutStore(g) ==
    /\ calls[g].at = "PutStore"
    /\ mutex = Unlocked
    /\ \E victim \in Victims(entries, maxSize) :
          LET c == calls[g]
              p == Put(entries, stats, c.input, c.entry.Results,
                       c.entry.Duration, c.entry.Created, victim)
          IN  /\ entries' = p.entries
              /\ stats' = p.stats
              /\ calls' = [Disturb(calls, {c.key, victim}) EXCEPT ![g] = Idle]
              /\ history' = [history EXCEPT !.lastPut =
                                Remember(Forget(@, {victim}), c.key, c.entry)]
    /\ UNCHANGED <<ac, stack, heap, held, file, patterns, automaton, initialized, maxSize, now, text, ret,
                   evicted, seen, pc, mutex>>

\* Search is called: it calls m.cache.Get(text)
SearchCall(g, T) ==
    /\ initialized
    /\ calls[g].at = "idle"
    /\ history.Gets < MaxSearches
    /\ LET key == hash(T) IN
       calls' = [calls EXCEPT ![g] =
                    [at |-> "GetLookup", input |-> T, key |-> key,
                     entry |-> NoEntry, exists |-> FALSE,
                     expect |-> Expected(key), inSearch |-> TRUE]]
    /\ history' = [history EXCEPT !.Gets = @ + 1, !.LiveGets = @ + 1]
    /\ seen' = seen \cup {T}
    /\ UNCHANGED <<ac, stack, heap, held, file, patterns, automaton, initialized, entries, maxSize, stats,
                   now, text, ret, evicted, pc, mutex>>

\* a bug that parks the scanner's state on the automaton
SearchScanKeepingState(g, d) ==
    /\ calls[g].at = "SearchScan"
    /\ now + d <= MaxClock
    /\ now' = now + d
    /\ automaton' = [automaton EXCEPT ![1].failure = Len(automaton) - 1]
    /\ calls' = [calls EXCEPT
                    ![g].at = "PutStore",
                    ![g].entry = [Input |-> calls[g].input,
                                  Results |-> Scan(automaton, patterns, calls[g].input),
                                  Duration |-> d, Created |-> now + d, Hits |-> 0]]
    /\ history' = [history EXCEPT !.Puts = @ + 1, !.LivePuts = @ + 1]
    /\ UNCHANGED <<ac, stack, heap, held, file, patterns, initialized, entries, maxSize, stats,
                   text, ret, evicted, seen, pc, mutex>>

\* the scan of Search after a miss, taking d ticks, and the call of
\* m.cache.Put(text, results, elapsed) up to its entry
SearchScan(g, d) ==
    /\ calls[g].at = "SearchScan"
    /\ now + d <= MaxClock
    /\ now' = now + d
    /\ calls' = [calls EXCEPT
                    ![g].at = "PutStore",
                    ![g].entry = [Input |-> calls[g].input,
                                  Results |-> Scan(automaton, patterns, calls[g].input),
                                  Duration |-> d, Created |-> now + d, Hits |-> 0]]
    /\ history' = [history EXCEPT !.Puts = @ + 1, !.LivePuts = @ + 1]
    /\ UNCHANGED <<ac, stack, heap, held, file, patterns, automaton, initialized, entries, maxSize, stats,
                   text, ret, evicted, seen, pc, mutex>>

\* Clear is called: c.mutex.Lock(); c.entries = make(...)
ClearLock(g) ==
    /\ calls[g].at = "idle"
    /\ mutex = Unlocked
    /\ mutex' = g
    /\ entries' = EmptyEntries
    /\ calls' = [Disturb(calls, DOMAIN history.lastPut) EXCEPT
                    ![g].at = "ClearHits"]
    /\ history' = [history EXCEPT
                      !.lastPut = EmptyEntries,
                      !.LiveGets = Cardinality({h \in Goroutines :
                                      calls[h].at \in {"GetLookup", "GetCount"}}),
                      !.LivePuts = Cardinality({h \in Goroutines :
                                      calls[h].at = "PutStore"})]
    /\ UNCHANGED <<ac, stack, heap, held, file, patterns, automaton, initialized, maxSize, stats, now, text,
                   ret, evicted, seen, pc>>

\* atomic.StoreInt64(&c.stats.Hits, 0)
ClearHits(g) ==
    /\ calls[g].at = "ClearHits"
    /\ stats' = [stats EXCEPT !.Hits = 0]
    /\ calls' = [calls EXCEPT ![g].at = "ClearMisses"]
    /\ UNCHANGED <<ac, stack, heap, held, file, patterns, automaton, initialized, entries, maxSize, now,
                   text, ret, evicted, seen, pc, mutex, history>>

\* a bug that leaves the misses as they are
ClearMissesSkipped(g) ==
    /\ calls[g].at = "ClearMisses"
    /\ calls' = [calls EXCEPT ![g].at = "ClearUnlock"]
    /\ UNCHANGED <<ac, stack, heap, held, file, patterns, automaton, initialized, entries, maxSize, stats,
                   now, text, ret, evicted, seen, pc, mutex, history>>

\* atomic.StoreInt64(&c.stats.Misses, 0)
ClearMisses(g) ==
    /\ calls[g].at = "ClearMisses"
    /\ stats' = [stats EXCEPT !.Misses = 0]
    /\ calls' = [calls EXCEPT ![g].at = "ClearUnlock"]
    /\ UNCHANGED <<ac, stack, heap, held, file, patterns, automaton, initialized, entries, maxSize, now,
                   text, ret, evicted, seen, pc, mutex, history>>

\* the rest of Clear: the stores to Evictions and TotalEntries, which only
\* holders of the write lock touch, the deferred Unlock and the return
ClearUnlock(g) ==
    /\ calls[g].at = "ClearUnlock"
    /\ stats' = [stats EXCEPT !.Evictions = 0, !.TotalEntries = 0]
    /\ mutex' = Unlocked
    /\ calls' = [calls EXCEPT ![g] = Idle]
    /\ history' = [history EXCEPT !.cleared = TRUE, !.Gets = 0, !.Puts = 0]
    /\ UNCHANGED <<ac, stack, heap, held, file, patterns, automaton, initialized, entries, maxSize, now,
                   text, ret, evicted, seen, pc>>

\* the inputs of the concurrent calls: "a", "b"
ConcurrentInputs == {<<97>>, <<98>>}

\* what the next concurrent Put stores: the two payloads take turns, so
\* that successive Puts store different match lists and durations
ConcurrentPayloads == {p \in Payloads : p.duration = 1 + (now % 2)}

\* the cache sizes of the concurrent runs: one entry, and 10000
ConcurrentCacheSizes == {1, EngineCacheSize}

\* the state after NewCache(n), shared by the goroutines
InitConcurrent ==
    /\ patterns = <<>>
    /\ automaton = <<NewACState>>
    /\ initialized = FALSE
    /\ entries = EmptyEntries
    /\ maxSize \in ConcurrentCacheSizes
    /\ stats = ZeroStats
    /\ now = 0
    /\ text = <<>>
    /\ ret = NoRet
    /\ evicted = NoKey
    /\ seen = {}
    /\ pc = "new"
    /\ calls = NoCalls
    /\ mutex = Unlocked
    /\ history = NoHistory
    /\ heap = <<>>
    /\ held = <<>>
    /\ ac = NoAc
    /\ stack = <<>>
    /\ file = NoFile

NextConcurrent ==
    \E g \in Goroutines :
        \/ \E input \in ConcurrentInputs : GetCall(g, input)
        \/ GetLookup(g)
        \/ GetCount(g)
        \/ \E input \in ConcurrentInputs, p \in ConcurrentPayloads :
              PutCall(g, input, p.results, p.duration)
        \/ PutStore(g)
        \/ ClearLock(g)
        \/ ClearHits(g)
        \/ ClearMisses(g)
        \/ ClearUnlock(g)

SpecConcurrent == InitConcurrent /\ [][NextConcurrent]_vars

\* the state after NewAhoCorasickMatcher, the engine shared by the goroutines
InitConcurrentSearch ==
    /\ patterns \in EnginePatternLists
    /\ automaton = buildAhoCorasickAutomaton(patterns)
    /\ initialized = TRUE
    /\ entries = EmptyEntries
    /\ maxSize \in ConcurrentCacheSizes
    /\ stats = ZeroStats
    /\ now = 0
    /\ text = <<>>
    /\ ret = NoRet
    /\ evicted = NoKey
    /\ seen = {}
    /\ pc = "ready"
    /\ calls = NoCalls
    /\ mutex = Unlocked
    /\ history = NoHistory
    /\ heap = <<>>
    /\ held = <<>>
    /\ ac = NoAc
    /\ stack = <<>>
    /\ file = NoFile

\* Search called from several goroutines
NextConcurrentSearch ==
    \E g \in Goroutines :
        \/ \E T \in EngineTexts : SearchCall(g, T)
        \/ GetLookup(g)
        \/ GetCount(g)
        \/ \E d \in Durations : SearchScan(g, d)
        \/ PutStore(g)

SpecConcurrentSearch == InitConcurrentSearch /\ [][NextConcurrentSearch]_vars

\* the state after NewAhoCorasickMatcher with the pattern "a" and a small
\* cache, the engine shared by the goroutines
InitRacingSearch ==
    /\ patterns = <<<<97>>>>
    /\ automaton = buildAhoCorasickAutomaton(patterns)
    /\ initialized = TRUE
    /\ entries = EmptyEntries
    /\ maxSize \in 1..MaxCacheSize
    /\ stats = ZeroStats
    /\ now = 0
    /\ text = <<>>
    /\ ret = NoRet
    /\ evicted = NoKey
    /\ seen = {}
    /\ pc = "ready"
    /\ calls = NoCalls
    /\ mutex = Unlocked
    /\ history = NoHistory
    /\ heap = <<>>
    /\ held = <<>>
    /\ ac = NoAc
    /\ stack = <<>>
    /\ file = NoFile

SpecRacingSearch == InitRacingSearch /\ [][NextConcurrentSearch]_vars

\* two texts with the same 64-bit FNV-1a key 0x2798a43bb672d5b9:
\* "4ggmrleg50oal" and "o5majvtteahie"
CollidingTexts ==
    {<<52, 103, 103, 109, 114, 108, 101, 103, 53, 48, 111, 97, 108>>,
     <<111, 53, 109, 97, 106, 118, 116, 116, 101, 97, 104, 105, 101>>}
\* the texts of the runs with a collision: the two, and "al"
CollisionTexts == CollidingTexts \cup {<<97, 108>>}
\* the pattern list of these runs: "a", "ie"
CollisionPatterns == <<<<97>>, <<105, 101>>>>
\* their cache sizes: one entry, and 10000 as in NewAhoCorasickMatcher
CollisionCacheSizes == {1, EngineCacheSize}

\* the state after NewAhoCorasickMatcher
InitCollision ==
    /\ patterns = CollisionPatterns
    /\ automaton = buildAhoCorasickAutomaton(patterns)
    /\ initialized = TRUE
    /\ entries = EmptyEntries
    /\ maxSize \in CollisionCacheSizes
    /\ stats = ZeroStats
    /\ now = 0
    /\ text = <<>>
    /\ ret = NoRet
    /\ evicted = NoKey
    /\ seen = {}
    /\ pc = "ready"
    /\ calls = NoCalls
    /\ mutex = Unlocked
    /\ history = NoHistory
    /\ heap = <<>>
    /\ held = <<>>
    /\ ac = NoAc
    /\ stack = <<>>
    /\ file = NoFile

NextCollision ==
    \/ \E T \in CollisionTexts, d \in Durations : Search(T, d)
    \/ Clear

SpecCollision == InitCollision /\ [][NextCollision]_vars

---------------------------------------------------------------------------
(* The C core: src/c-core/aho_corasick.c                                   *)

\* uint32_t output[8]
OutputCap == 8

\* matches[match_count].confidence = 95
CConfidence == 95

\* ac_search takes the SIMD branch for texts of more than 64 bytes
SimdThreshold == 64

\* the calls a run makes at most: patterns added, builds that succeed
MaxCPatterns == 3

MaxBuilds == 2

\* the frames the C stack has room for
MaxStack == 4

\* the short texts of ac_search: "aaB" and what it ends with
CShortText == <<97, 97, 66>>

\* the patterns handed to ac_add_pattern: "", "B", "ab", "aab"
CPatternInputs == {<<>>, <<66>>, <<97, 98>>, <<97, 97, 98>>}

\* max_matches: too few for some results, and enough for all
CMaxMatches == {1, 16}

AC_MAX_STATES == 200000

AC_MAX_PATTERNS == 100000

\* a zeroed ac_state_t
ZeroState == [next |-> EmptyNext, failure |-> 0, output |-> <<>>]

\* ac_create: one zeroed state array (kept as the states written so far,
\* the root among them), no patterns; simd_enabled is what the CPU offers
ac_create(simd) ==
    [states |-> <<ZeroState>>, state_count |-> 1, patterns |-> <<>>,
     simd_enabled |-> simd, initialized |-> FALSE]

\* tolower of <ctype.h> in the C locale, on an ASCII byte
tolower(c) == IF c >= 65 /\ c <= 90 THEN c + 32 ELSE c

\* ac->patterns[i][j] = tolower(pattern[j])
LowerBytes(bs) == [k \in 1..Len(bs) |-> tolower(bs[k])]

\* ac_add_pattern(ac, pattern, pattern_id): the result and the automaton
ac_add_pattern(a, pattern) ==
    IF Len(a.patterns) >= AC_MAX_PATTERNS \/ Len(pattern) = 0
    THEN [ret |-> -1, ac |-> a]
    ELSE [ret |-> 0,
          ac |-> [a EXCEPT !.patterns = Append(@, LowerBytes(pattern)),
                           !.initialized = FALSE]]

\* memset(&ac->states[n], 0, sizeof(ac_state_t))
ZeroStateAt(states, n) ==
    IF n < Len(states) THEN [states EXCEPT ![n + 1] = ZeroState]
    ELSE Append(states, ZeroState)

\* the loop over the bytes of one pattern in build_goto_function, from
\* byte j on; err: the state array is full
RECURSIVE GotoWalk(_, _, _, _, _)
GotoWalk(states, count, state, bs, j) ==
    IF j > Len(bs)
    THEN [states |-> states, count |-> count, state |-> state, err |-> FALSE]
    ELSE LET c == bs[j] IN
         IF Goto(states, state, c) = 0
         THEN IF count >= AC_MAX_STATES
              THEN [states |-> states, count |-> count, state |-> state,
                    err |-> TRUE]
              ELSE LET made == ZeroStateAt(SetNext(states, state, c, count), count)
                   IN  GotoWalk(made, count + 1, Goto(made, state, c), bs, j + 1)
         ELSE GotoWalk(states, count, Goto(states, state, c), bs, j + 1)

\* states[state].output[output_count++] = id, if there is room
AddOutput(states, state, id) ==
    IF Len(states[state + 1].output) < OutputCap
    THEN [states EXCEPT ![state + 1].output = Append(@, id)]
    ELSE states

\* the loop over the patterns in build_goto_function, from pattern i on
RECURSIVE GotoPatterns(_, _, _, _)
GotoPatterns(states, count, pats, i) ==
    IF i >= Len(pats) THEN [states |-> states, count |-> count, err |-> FALSE]
    ELSE LET w == GotoWalk(states, count, 0, pats[i + 1], 1) IN
         IF w.err THEN [states |-> w.states, count |-> w.count, err |-> TRUE]
         ELSE GotoPatterns(AddOutput(w.states, w.state, i), w.count, pats, i + 1)

\* build_goto_function: state_count = 1, then the patterns; the state
\* array keeps what earlier builds have written
build_goto_function(a) ==
    LET w == GotoPatterns(a.states, 1, a.patterns, 0)
    IN  [ac |-> [a EXCEPT !.states = w.states, !.state_count = w.count],
         err |-> w.err]

\* queue[rear++] = state, if rear < ac->state_count
Enqueue(queue, count, state) ==
    IF Len(queue) < count THEN Append(queue, state) ELSE queue

\* the first loop of build_failure_function over the bytes cs[k..] with a
\* transition from the root
RECURSIVE LinkDepth1(_, _, _, _, _)
LinkDepth1(states, queue, count, cs, k) ==
    IF k > Len(cs) THEN [states |-> states, queue |-> queue]
    ELSE LET state == Goto(states, 0, cs[k])
         IN  LinkDepth1([states EXCEPT ![state + 1].failure = 0],
                        Enqueue(queue, count, state), count, cs, k + 1)

\* while (state != 0 && states[state].next[c] == 0) state = failure; gives
\* -1 when the loop has not ended after `fuel` rounds (it never ends then:
\* the failure links run in a circle)
RECURSIVE FailureWalk(_, _, _, _)
FailureWalk(states, state, c, fuel) ==
    IF state # 0 /\ Goto(states, state, c) = 0
    THEN IF fuel = 0 THEN -1
         ELSE FailureWalk(states, states[state + 1].failure, c, fuel - 1)
    ELSE state

\* the loop over the bytes cs[k..] with a transition from r, in the second
\* loop of build_failure_function
RECURSIVE LinkGotos(_, _, _, _)
LinkGotos(st, r, cs, k) ==
    IF k > Len(cs) \/ st.hang THEN st
    ELSE LET c == cs[k]
             u == Goto(st.states, r, c)
             state == FailureWalk(st.states, st.states[r + 1].failure, c,
                                  Len(st.states))
         IN  IF state = -1
             THEN [st EXCEPT !.hang = TRUE,
                             !.queue = Enqueue(st.queue, st.count, u)]
             ELSE LinkGotos([st EXCEPT
                                !.queue = Enqueue(st.queue, st.count, u),
                                !.states[u + 1].failure = Goto(st.states, state, c)],
                            r, cs, k + 1)

\* one round of `while (front < rear)`
QueueRound(st) ==
    IF st.front >= Len(st.queue) \/ st.hang THEN st
    ELSE LET r == st.queue[st.front + 1]
         IN  LinkGotos([st EXCEPT !.front = @ + 1], r,
                       Ascending(DOMAIN st.states[r + 1].next), 1)

\* the loop `while (front < rear)`, for n rounds at most (halved so that
\* the evaluation stays shallow)
RECURSIVE QueueRounds(_, _)
QueueRounds(st, n) ==
    IF n <= 0 \/ st.front >= Len(st.queue) \/ st.hang THEN st
    ELSE IF n = 1 THEN QueueRound(st)
    ELSE QueueRounds(QueueRounds(st, n \div 2), n - (n \div 2))

\* build_failure_function: the queue has room for state_count entries, so
\* the second loop makes at most so many rounds
build_failure_function(a) ==
    LET d == LinkDepth1(a.states, <<>>, a.state_count,
                        Ascending(DOMAIN a.states[1].next), 1)
        w == QueueRounds([states |-> d.states, queue |-> d.queue, front |-> 0,
                          count |-> a.state_count, hang |-> FALSE],
                         a.state_count)
    IN  [ac |-> [a EXCEPT !.states = w.states], hang |-> w.hang]

\* the inner loop of build_output_function: the outputs of the failure
\* state f from position j on, as they are when the loop gets to them
RECURSIVE CopyOutputs(_, _, _, _)
CopyOutputs(states, i, f, j) ==
    IF j >= Len(states[f + 1].output) THEN states
    ELSE CopyOutputs(AddOutput(states, i, states[f + 1].output[j + 1]), i, f, j + 1)

\* the outer loop of build_output_function: the states i..count-1 in the
\* order of their numbers
RECURSIVE OutputStates(_, _, _)
OutputStates(states, i, count) ==
    IF i >= count THEN states
    ELSE OutputStates(CopyOutputs(states, i, states[i + 1].failure, 0),
                      i + 1, count)

build_output_function(a) ==
    [a EXCEPT !.states = OutputStates(a.states, 1, a.state_count)]

\* ac_build: the result (hang: the call never returns) and the automaton
ac_build(a) ==
    IF Len(a.patterns) = 0 THEN [ret |-> -1, hang |-> FALSE, ac |-> a]
    ELSE LET g == build_goto_function(a) IN
         IF g.err THEN [ret |-> -1, hang |-> FALSE, ac |-> g.ac]
         ELSE LET f == build_failure_function(g.ac) IN
              IF f.hang THEN [ret |-> -1, hang |-> TRUE, ac |-> f.ac]
              ELSE [ret |-> 0, hang |-> FALSE,
                    ac |-> [build_output_function(f.ac) EXCEPT
                               !.initialized = TRUE]]

\* the n least significant bytes of v >= 0, least significant first
RECURSIVE LimbsOf(_, _)
LimbsOf(v, n) == IF n = 0 THEN <<>> ELSE <<v % 256>> \o LimbsOf(v \div 256, n - 1)

\* v mod 2^64 as a uint64_t (its eight bytes): below zero v wraps to
\* 2^64 + v, the complement of -v - 1
Uint64(v) ==
    IF v >= 0 THEN LimbsOf(v, 8)
    ELSE [k \in 1..8 |-> 255 - LimbsOf(-v - 1, 8)[k]]

\* matches[match_count] for the pattern id found at text index i; offset
\* and length are uint64_t
CMatch(a, i, id) ==
    [offset |-> Uint64(i - Len(a.patterns[id + 1]) + 1),
     length |-> Uint64(Len(a.patterns[id + 1])), pattern_id |-> id,
     confidence |-> CConfidence]

\* the loop over the outputs of `state` in ac_search, from output j on
RECURSIVE ReportOutputs(_, _, _, _, _, _)
ReportOutputs(a, matches, state, i, j, max_matches) ==
    IF j >= Len(a.states[state + 1].output) \/ Len(matches) >= max_matches
    THEN matches
    ELSE ReportOutputs(a, Append(matches,
                                 CMatch(a, i, a.states[state + 1].output[j + 1])),
                       state, i, j + 1, max_matches)

\* one round of the loop over the text in ac_search; hang: the loop over
\* the failure links never ends
SearchByte(a, T, st, i, max_matches) ==
    IF st.hang \/ Len(st.matches) >= max_matches THEN st
    ELSE LET c == tolower(T[i + 1])
             walked == FailureWalk(a.states, st.state, c, Len(a.states))
         IN  IF walked = -1 THEN [st EXCEPT !.hang = TRUE]
             ELSE LET state == Goto(a.states, walked, c)
                  IN  [st EXCEPT !.state = state,
                                 !.matches = ReportOutputs(a, @, state, i, 0,
                                                           max_matches)]

\* the rounds lo..hi-1 of the loop over the text: the first half of them,
\* and then the second half from the state the first half has left
RECURSIVE SearchBytes(_, _, _, _, _, _)
SearchBytes(a, T, st, lo, hi, max_matches) ==
    IF hi <= lo THEN st
    ELSE IF hi = lo + 1 THEN SearchByte(a, T, st, lo, max_matches)
    ELSE LET mid == (lo + hi) \div 2
         IN  CHOOSE r \in {SearchBytes(a, T, half, mid, hi, max_matches) :
                              half \in {SearchBytes(a, T, st, lo, mid, max_matches)}} :
                 TRUE

\* the else branch of ac_search: the standard search
ac_search_fallback(a, T, max_matches) ==
    SearchBytes(a, T, [state |-> 0, matches |-> <<>>, hang |-> FALSE],
                0, Len(T), max_matches)

\* what ac_search and ac_add_pattern and ac_build hand back
CResult(code, matches) == [code |-> code, matches |-> matches]

\* the functions an application may call when no call is under way
CIdle == pc \in {"start", "ac_add_pattern", "ac_build", "ac_search"}

\* history, in the runs of the C core: the calls of ac_build that have
\* returned 0, and the max_matches of the last call of ac_search

\* the application calls ac_add_pattern(ac, p, id)
CAddPattern(p) ==
    /\ CIdle
    /\ Len(ac.patterns) < MaxCPatterns
    /\ ac' = ac_add_pattern(ac, p).ac
    /\ ret' = CResult(ac_add_pattern(ac, p).ret, <<>>)
    /\ pc' = "ac_add_pattern"
    /\ UNCHANGED <<stack, history, text, heap, held, file, patterns, automaton,
                   initialized, entries, maxSize, stats, now, evicted, seen,
                   calls, mutex>>

\* the application calls ac_build(ac)
CBuild ==
    /\ CIdle
    /\ history.builds < MaxBuilds
    /\ LET b == ac_build(ac) IN
        /\ ac' = b.ac
        /\ ret' = CResult(b.ret, <<>>)
        /\ pc' = IF b.hang THEN "hang" ELSE "ac_build"
        /\ history' = IF b.ret = 0 THEN [history EXCEPT !.builds = @ + 1]
                      ELSE history
    /\ UNCHANGED <<stack, text, heap, held, file, patterns, automaton,
                   initialized, entries, maxSize, stats, now, evicted, seen,
                   calls, mutex>>

\* the application calls ac_search(ac, T, Len(T), matches, max_matches)
CSearchCall(T, max_matches) ==
    /\ CIdle
    /\ stack' = <<[fn |-> "ac_search", max_matches |-> max_matches]>>
    /\ text' = T
    /\ pc' = "call"
    /\ history' = [history EXCEPT !.max_matches = max_matches]
    /\ UNCHANGED <<ac, ret, heap, held, file, patterns, automaton,
                   initialized, entries, maxSize, stats, now, evicted, seen,
                   calls, mutex>>

\* the frame on top of the stack returns r to its caller
Return(r) ==
    /\ stack' = SubSeq(stack, 1, Len(stack) - 1)
    /\ ret' = r
    /\ pc' = IF Len(stack) = 1 THEN "ac_search" ELSE "return"

\* the frame on top of the stack calls fn with its own arguments; the
\* process ends when the stack has no room for one more frame
Call(fn) ==
    /\ ret' = ret
    /\ IF Len(stack) >= MaxStack
       THEN stack' = stack /\ pc' = "SIGSEGV"
       ELSE /\ stack' = Append(stack, [stack[Len(stack)] EXCEPT !.fn = fn])
            /\ pc' = "call"

\* ac_search runs: from its entry to the call of ac_search_simd or to its
\* return, and from the return of ac_search_simd to its own
ac_search ==
    /\ pc \in {"call", "return"}
    /\ stack # <<>>
    /\ stack[Len(stack)].fn = "ac_search"
    /\ IF pc = "return" THEN Return(ret)
       ELSE IF ~ac.initialized THEN Return(CResult(-1, <<>>))
       ELSE IF ac.simd_enabled /\ Len(text) > SimdThreshold
            THEN Call("ac_search_simd")
       ELSE LET r == ac_search_fallback(ac, text, stack[Len(stack)].max_matches)
            IN  IF r.hang
                THEN stack' = stack /\ ret' = ret /\ pc' = "hang"
                ELSE Return(CResult(Len(r.matches), r.matches))
    /\ UNCHANGED <<ac, text, history, heap, held, file, patterns, automaton,
                   initialized, entries, maxSize, stats, now, evicted, seen,
                   calls, mutex>>

\* ac_search_simd runs: it calls ac_search and returns what that returns
ac_search_simd ==
    /\ pc \in {"call", "return"}
    /\ stack # <<>>
    /\ stack[Len(stack)].fn = "ac_search_simd"
    /\ IF pc = "return" THEN Return(ret) ELSE Call("ac_search")
    /\ UNCHANGED <<ac, text, history, heap, held, file, patterns, automaton,
                   initialized, entries, maxSize, stats, now, evicted, seen,
                   calls, mutex>>

\* the texts of ac_search: the short ones, and one of exactly the length
\* up to which ac_search never takes the SIMD branch and one a byte longer
Repeat(c, n) == [k \in 1..n |-> c]

CTexts ==
    {SubSeq(CShortText, k, Len(CShortText)) : k \in 1..(Len(CShortText) + 1)}
        \cup {Repeat(97, SimdThreshold), Repeat(97, SimdThreshold + 1)}

\* after ac_create, on a CPU with or without SIMD
InitCCore ==
    /\ patterns = <<>>
    /\ automaton = <<NewACState>>
    /\ initialized = FALSE
    /\ entries = EmptyEntries
    /\ maxSize = 0
    /\ stats = ZeroStats
    /\ now = 0
    /\ text = <<>>
    /\ ret = CResult(0, <<>>)
    /\ evicted = NoKey
    /\ seen = {}
    /\ pc = "start"
    /\ calls = NoCalls
    /\ mutex = Unlocked
    /\ history = [builds |-> 0, max_matches |-> 0]
    /\ heap = <<>>
    /\ held = <<>>
    /\ \E simd \in BOOLEAN : ac = ac_create(simd)
    /\ stack = <<>>
    /\ file = NoFile

NextCCore ==
    \/ \E p \in CPatternInputs : CAddPattern(p)
    \/ CBuild
    \/ \E T \in CTexts, m \in CMaxMatches : CSearchCall(T, m)
    \/ ac_search
    \/ ac_search_simd

SpecCCore == InitCCore /\ [][NextCCore]_vars

\* the pattern lists of the automata that are built before the searches
\* start: up to MaxBuiltPatterns patterns that ac_add_pattern accepts
MaxBuiltPatterns == 1

CPatternLists ==
    UNION {[1..n -> CPatternInputs \ {<<>>}] : n \in 1..MaxBuiltPatterns}

\* the automaton after ac_load_patterns_from_array(ac, pats, Len(pats)),
\* from pattern k on: it stops at the first pattern ac_add_pattern rejects
RECURSIVE ac_load_patterns_from_array(_, _, _)
ac_load_patterns_from_array(a, pats, k) ==
    IF k > Len(pats) \/ ac_add_pattern(a, pats[k]).ret # 0 THEN a
    ELSE ac_load_patterns_from_array(ac_add_pattern(a, pats[k]).ac, pats, k + 1)

\* after ac_create, ac_add_pattern for each pattern of a list, and ac_build
InitCBuilt ==
    /\ patterns = <<>>
    /\ automaton = <<NewACState>>
    /\ initialized = FALSE
    /\ entries = EmptyEntries
    /\ maxSize = 0
    /\ stats = ZeroStats
    /\ now = 0
    /\ text = <<>>
    /\ ret = CResult(0, <<>>)
    /\ evicted = NoKey
    /\ seen = {}
    /\ pc = "ac_build"
    /\ calls = NoCalls
    /\ mutex = Unlocked
    /\ history = [builds |-> 1, max_matches |-> 0]
    /\ heap = <<>>
    /\ held = <<>>
    /\ \E simd \in BOOLEAN, pats \in CPatternLists :
          ac = ac_build(ac_load_patterns_from_array(ac_create(simd), pats, 1)).ac
    /\ stack = <<>>
    /\ file = NoFile

\* searches on the built automaton
NextCSearch ==
    \/ \E T \in CTexts, m \in CMaxMatches : CSearchCall(T, m)
    \/ ac_search
    \/ ac_search_simd

SpecCSearch == InitCBuilt /\ [][NextCSearch]_vars

\* a function that has been called runs
SpecCSearchFair ==
    SpecCSearch /\ WF_vars(ac_search) /\ WF_vars(ac_search_simd)

---------------------------------------------------------------------------
(* Properties of one scan                                                  *)

\* ASCII case folding of one byte
FoldByte(b) == IF b >= 65 /\ b <= 90 THEN b + 32 ELSE b

FoldBytes(bs) == [k \in 1..Len(bs) |-> FoldByte(bs[k])]

\* T[i..i+|P|) equals P after ASCII case folding
OccursAt(P, T, i) ==
    /\ i + ByteLen(P) <= ByteLen(T)
    /\ FoldBytes(SubSeq(Bytes(T), i + 1, i + ByteLen(P))) = FoldBytes(Bytes(P))

IsAscii(s) == \A k \in 1..Len(s) : s[k] < 128

AsciiInput == IsAscii(text) /\ \A j \in 1..Len(patterns) : IsAscii(patterns[j])

Searched == pc = "Search"

\* the last text position a match covers
EndPos(m) == m.Offset + m.Length - 1

\* how often m occurs in the list ms
Count(ms, m) == Cardinality({k \in 1..Len(ms) : ms[k] = m})

SameMultiset(xs, ys) ==
    /\ Len(xs) = Len(ys)
    /\ \A k \in 1..Len(xs) : Count(xs, xs[k]) = Count(ys, xs[k])

\* the matches of the one-pattern automaton of pats[id + 1], under the id it has in pats
SingleScan(pats, id, T) ==
    LET one == <<pats[id + 1]>>
        ms == Scan(buildAhoCorasickAutomaton(one), one, T)
    IN  [k \in 1..Len(ms) |-> [ms[k] EXCEPT !.PatternID = id]]

RECURSIVE IndependentScans(_, _, _)
IndependentScans(pats, id, T) ==
    IF id >= Len(pats) THEN <<>>
    ELSE SingleScan(pats, id, T) \o IndependentScans(pats, id + 1, T)

\* C1 (as claimed): with the single pattern P, every byte position i of the
\* text where T[i..i+|P|) equals P after ASCII case folding is reported as
\* the match (offset i, length |P|, pattern id 0)
C1_Completeness ==
    (Searched /\ Len(patterns) = 1) =>
        \A i \in 0..ByteLen(text) :
            OccursAt(patterns[1], text, i) =>
                \E k \in 1..Len(ret.results) :
                    /\ ret.results[k].Offset = i
                    /\ ret.results[k].Length = ByteLen(patterns[1])
                    /\ ret.results[k].PatternID = 0

\* C2 (as claimed): every returned match (offset, length, pattern id) has
\* T[offset..offset+length) equal to patterns[pattern id] after ASCII case
\* folding
C2_Soundness ==
    Searched =>
        \A k \in 1..Len(ret.results) :
            LET m == ret.results[k] IN
            /\ m.PatternID < Len(patterns)
            /\ m.Length = ByteLen(patterns[m.PatternID + 1])
            /\ OccursAt(patterns[m.PatternID + 1], text, m.Offset)

\* C3 (as claimed): the matches of the automaton of the whole list are, as
\* a multiset, the matches of the one-pattern automata of its patterns, each
\* under its position in the list
C3_MultiPatternEquivalence ==
    Searched => SameMultiset(ret.results, IndependentScans(patterns, 0, text))

\* C1 to C3 on ASCII patterns and ASCII text, where they hold
AsciiCompleteness == AsciiInput => C1_Completeness
AsciiSoundness == AsciiInput => C2_Soundness
AsciiMultiPatternEquivalence == AsciiInput => C3_MultiPatternEquivalence

\* C4: in the returned list the end positions of the matches never decrease
C4_EndPositionsNonDecreasing ==
    Searched =>
        \A j, k \in 1..Len(ret.results) :
            j < k => EndPos(ret.results[j]) <= EndPos(ret.results[k])

\* a scan returned matches at two end positions and two at the same one
C4_Witness ==
    /\ Searched
    /\ \E j, k \in 1..Len(ret.results) :
          j < k /\ EndPos(ret.results[j]) < EndPos(ret.results[k])
    /\ \E j, k \in 1..Len(ret.results) :
          j < k /\ EndPos(ret.results[j]) = EndPos(ret.results[k])

\* the number of trie edges of a pattern: its code points below 256
TrieDepth(p) == Cardinality({k \in 1..Len(p) : ToLowerRune(p[k]) < 256})

\* C5 (as claimed): matches that end at the same text position come in
\* ascending pattern-id order
C5_AscendingIdsAtOneEnd ==
    Searched =>
        \A j, k \in 1..Len(ret.results) :
            (j < k /\ EndPos(ret.results[j]) = EndPos(ret.results[k]))
                => ret.results[j].PatternID < ret.results[k].PatternID

\* C5 (amended): matches that end at the same text position come in the
\* order of the state's output list: the pattern with more trie edges (the
\* longer one) first, and patterns with equally many in ascending id order
C5_LongestFirstThenAscendingIds ==
    Searched =>
        \A j, k \in 1..Len(ret.results) :
            (j < k /\ EndPos(ret.results[j]) = EndPos(ret.results[k])) =>
                LET dj == TrieDepth(patterns[ret.results[j].PatternID + 1])
                    dk == TrieDepth(patterns[ret.results[k].PatternID + 1])
                IN  \/ dj > dk
                    \/ dj = dk /\ ret.results[j].PatternID < ret.results[k].PatternID

\* two matches end at the same position, the longer pattern has the larger
\* id and comes first; and two equally long ones come in id order
C5_Witness ==
    /\ Searched
    /\ \E j, k \in 1..Len(ret.results) :
          /\ j < k
          /\ EndPos(ret.results[j]) = EndPos(ret.results[k])
          /\ ret.results[j].Length > ret.results[k].Length
          /\ ret.results[j].PatternID > ret.results[k].PatternID
    /\ \E j, k \in 1..Len(ret.results) :
          /\ j < k
          /\ EndPos(ret.results[j]) = EndPos(ret.results[k])
          /\ ret.results[j].Length = ret.results[k].Length

---------------------------------------------------------------------------
(* Properties of the engine with its cache                                 *)

\* no two distinct texts of S have the same hash key
NoCollisions(S) == \A T1, T2 \in S : hash(T1) = hash(T2) => T1 = T2

\* C6: when no two distinct searched texts have the same hash, a search
\* returns the match list of an uncached scan of its text, whatever searches
\* and clears came before
C6_CacheTransparency ==
    (Searched /\ NoCollisions(seen)) =>
        ret.results = Scan(automaton, patterns, text)

\* a search of one of several texts was served from the cache with matches
C6_Witness ==
    /\ Searched
    /\ ret.found
    /\ Len(ret.results) > 0
    /\ Cardinality(seen) > 1
    /\ NoCollisions(seen)

\* C7: with no hash collision and no more distinct texts than the capacity,
\* a search of a text that is not cached adds one miss and one entry; a
\* search of a cached text returns the stored list, adds one hit and leaves
\* misses and total_entries as they were
C7_HitMissAccounting ==
    [][(pc' = "Search" /\ NoCollisions(seen') /\ Cardinality(seen') <= maxSize) =>
         LET before == GetStats(entries, stats)
             after == GetStats(entries', stats')
         IN  IF hash(text') \in DOMAIN entries
             THEN /\ ret'.results = entries[hash(text')].Results
                  /\ after.Hits = before.Hits + 1
                  /\ after.Misses = before.Misses
                  /\ after.TotalEntries = before.TotalEntries
             ELSE /\ after.Misses = before.Misses + 1
                  /\ after.Hits = before.Hits
                  /\ after.TotalEntries = before.TotalEntries + 1]_vars

\* foo, bar, foo with capacity 2: hits = 1, misses = 2, total_entries = 2
C7_Witness ==
    /\ Searched
    /\ ret.found
    /\ maxSize = 2
    /\ Cardinality(seen) = 2
    /\ GetStats(entries, stats) =
          [Hits |-> 1, Misses |-> 2, Evictions |-> 0, TotalEntries |-> 2]

---------------------------------------------------------------------------
(* Properties of the cache                                                 *)

\* C8 (as claimed): the number of stored entries never exceeds the
\* configured maximum size
C8_EntriesWithinCapacity ==
    GetStats(entries, stats).TotalEntries <= maxSize

\* C8 for a maximum size of at least 1, where it holds
PositiveCapacityBound == maxSize >= 1 => C8_EntriesWithinCapacity

C10_EvictsOnlyWhenOverCapacity ==
    [][pc' = "Put" =>
         LET over == Cardinality((DOMAIN entries) \cup {hash(text')}) > maxSize
         IN  /\ evicted' # NoKey => over
             /\ over => /\ evicted' # NoKey
                        /\ stats'.Evictions = stats.Evictions + 1
                        /\ EntryCount(entries') = maxSize]_vars

\* C10 for the Puts of keys that are not stored, where it holds
NewKeyEviction ==
    [][(pc' = "Put" /\ hash(text') \notin DOMAIN entries) =>
         LET over == EntryCount(entries) + 1 > maxSize
         IN  /\ evicted' # NoKey <=> over
             /\ over => /\ stats'.Evictions = stats.Evictions + 1
                        /\ EntryCount(entries') = maxSize]_vars

---------------------------------------------------------------------------
(* Properties of the cache under a hash collision                          *)

\* C11: a search of a text whose hash key is stored for a different text
\* is a cache hit that returns the match list and the duration stored for
\* that other text; it scans nothing and stores nothing
C11_CollisionReadsOtherEntry ==
    [][(/\ pc' = "Search"
        /\ hash(text') \in DOMAIN entries
        /\ entries[hash(text')].Input # text') =>
           LET stored == entries[hash(text')] IN
           /\ ret'.found
           /\ ret'.results = stored.Results
           /\ ret'.duration = stored.Duration
           /\ stored.Results = Scan(automaton, patterns, stored.Input)
           /\ now' = now
           /\ stats'.Hits = stats.Hits + 1
           /\ stats'.Misses = stats.Misses
           /\ entries'[hash(text')].Input = stored.Input]_vars

\* a search was served with the entry of a different text, and the list
\* it got is not the list a scan of its own text gives
C11_Witness ==
    /\ Searched
    /\ ret.found
    /\ hash(text) \in DOMAIN entries
    /\ entries[hash(text)].Input # text
    /\ ret.results = entries[hash(text)].Results
    /\ ret.results # Scan(automaton, patterns, text)

---------------------------------------------------------------------------
(* Properties of the cache called from several goroutines                  *)

\* goroutine g returns from Get in this step
GetReturns(g) == calls[g].at = "GetCount" /\ calls'[g].at = "idle"

\* goroutine g returns from Clear in this step
ClearReturns(g) == calls[g].at = "ClearUnlock" /\ calls'[g].at = "idle"

\* C12: a Get that started after a Put on its key had returned, with no
\* later Put storing under that key, no Clear and no eviction of that entry
\* before the Get returns, returns a hit with the match list and the
\* duration of that Put, whatever the other goroutines do meanwhile
C12_GetSeesReturnedPut ==
    [][\A g \in Goroutines :
          (GetReturns(g) /\ calls[g].expect # NoEntry) =>
              /\ ret'.found
              /\ ret'.results = calls[g].expect.Results
              /\ ret'.duration = calls[g].expect.Duration]_vars

\* a Get is about to return the non-empty match list of the Put that had
\* returned before it started, while another goroutine is inside a Put and
\* an earlier Get has returned a hit
C12_Witness ==
    \E g, h \in Goroutines :
        /\ g # h
        /\ calls[g].at = "GetCount"
        /\ calls[g].expect # NoEntry
        /\ calls[g].exists
        /\ calls[g].entry.Results = calls[g].expect.Results
        /\ calls[g].entry.Results # <<>>
        /\ calls[h].at = "PutStore"
        /\ ret.found

\* C13 (as claimed): when Clear returns the entry map is empty; and from
\* then on hits and misses count only Gets, and evictions only Puts, that
\* started after that Clear returned; with no such call, stats reports
\* hits = misses = evictions = total_entries = 0
C13_ClearResetsCounters ==
    [][/\ \A g \in Goroutines : ClearReturns(g) => entries' = EmptyEntries
       /\ (history'.cleared /\ mutex' = Unlocked) =>
              LET reported == GetStats(entries', stats') IN
              /\ reported.Hits + reported.Misses <= history'.Gets
              /\ reported.Evictions <= history'.Puts
              /\ (history'.Gets = 0 /\ history'.Puts = 0) =>
                     reported = ZeroStats]_vars

\* C13 (amended): when Clear returns the entry map is empty; and from
\* then on hits and misses count only Gets, and evictions and total_entries
\* only Puts, that were in progress when that Clear took the lock or have
\* started since; with no such call, stats reports
\* hits = misses = evictions = total_entries = 0
C13_ClearResetsLiveCounters ==
    [][/\ \A g \in Goroutines : ClearReturns(g) => entries' = EmptyEntries
       /\ (history'.cleared /\ mutex' = Unlocked) =>
              LET reported == GetStats(entries', stats') IN
              /\ reported.Hits + reported.Misses <= history'.LiveGets
              /\ reported.Evictions <= history'.LivePuts
              /\ reported.TotalEntries <= history'.LivePuts
              /\ (history'.LiveGets = 0 /\ history'.LivePuts = 0) =>
                     reported = ZeroStats]_vars

\* a Clear has returned, no call has started since and none is in progress,
\* the map is empty, and yet a hit is counted: that of a Get which found
\* its entry before the Clear and counted it after
C13_Witness ==
    /\ history.cleared
    /\ history.Gets = 0 /\ history.Puts = 0
    /\ calls = NoCalls
    /\ entries = EmptyEntries
    /\ stats.Hits > 0

---------------------------------------------------------------------------
(* Properties of the counters                                              *)

\* C14 (as claimed): no Get and no Put makes any of the four values that
\* stats reports smaller
C14_CountersMonotonic ==
    [][pc' \in {"Get", "Put"} =>
         LET before == GetStats(entries, stats)
             after == GetStats(entries', stats')
         IN  /\ before.Hits <= after.Hits
             /\ before.Misses <= after.Misses
             /\ before.Evictions <= after.Evictions
             /\ before.TotalEntries <= after.TotalEntries]_vars

\* C14 without total_entries, where it holds
CountersOfCallsMonotonic ==
    [][pc' \in {"Get", "Put"} =>
         /\ stats.Hits <= stats'.Hits
         /\ stats.Misses <= stats'.Misses
         /\ stats.Evictions <= stats'.Evictions]_vars

\* the searches of distinct texts so far (N), and the repeated searches of
\* the first text after them (M), in a hit-ratio run
DistinctSearches == Cardinality(seen)
RepeatedSearches == stats.Hits + stats.Misses - Cardinality(seen)

\* C15 (as claimed): hit_ratio returns the fraction hits / (hits + misses),
\* 0 when no query has occurred, and M / (N + M) after N searches of
\* distinct texts and M repeated searches of the first one
C15_HitRatioIsFraction ==
    pc = "HitRatio" =>
        /\ (stats.Hits + stats.Misses = 0) => ret.ratio = Float64Scaled(0, 1, 1)
        /\ (stats.Hits + stats.Misses > 0) =>
               /\ ret.ratio = Float64Scaled(stats.Hits, stats.Hits + stats.Misses, 1)
               /\ ret.ratio = Float64Scaled(RepeatedSearches,
                                            DistinctSearches + RepeatedSearches, 1)

\* C15 (amended): hit_ratio returns 0 when no query has occurred; after N
\* searches of distinct texts with distinct hash keys, N no larger than the
\* capacity, and M repeated searches of the first one it returns the
\* percentage float64(M) / float64(N + M) * 100
C15_HitRatioIsPercentage ==
    pc = "HitRatio" =>
        /\ (stats.Hits + stats.Misses = 0) => ret.ratio = Float64Scaled(0, 1, 1)
        /\ (/\ DistinctSearches >= 1
            /\ DistinctSearches <= maxSize
            /\ NoCollisions(seen)) =>
               ret.ratio = Float64Scaled(RepeatedSearches,
                                        DistinctSearches + RepeatedSearches, Percent)

\* two distinct texts, then the first one twice more: 100 * 2 / 4 = 100 * 1 / 2
C15_Witness ==
    /\ pc = "HitRatio"
    /\ DistinctSearches = 2
    /\ RepeatedSearches = 2
    /\ DistinctSearches <= maxSize
    /\ ret.ratio = [num |-> 1, den |-> 2, factor |-> Percent]

---------------------------------------------------------------------------
(* Properties of the engine called from several goroutines                 *)

\* C16: no step of a Search, alone or interleaved with the Searches of
\* other goroutines, on a hit or on a miss, changes the automaton's states
\* (goto tables, failure links, output lists), the pattern list or the
\* initialized flag: a search changes nothing but the cache
C16_AutomatonImmutable ==
    [][/\ automaton' = automaton
       /\ patterns' = patterns
       /\ initialized' = initialized]_vars

\* Searches of two goroutines overlap: one has missed, scanned and is about
\* to store its matches, the other has found its text in the cache; earlier
\* misses are counted, and the automaton is still the one built
C16_Witness ==
    /\ stats.Misses >= 1
    /\ \E g, h \in Goroutines :
          /\ calls[g].at = "PutStore"
          /\ calls[g].entry.Results # <<>>
          /\ calls[h].at = "GetCount"
          /\ calls[h].exists
    /\ automaton = buildAhoCorasickAutomaton(patterns)

---------------------------------------------------------------------------
(* Totality of the scan and shape of its matches                           *)

\* the state whose goto table leads to the state s # 0
Parent(states, s) ==
    CHOOSE r \in 0..(Len(states) - 1) :
        \E c \in DOMAIN states[r + 1].next : states[r + 1].next[c] = s

\* the depth of a state: the number of trie edges from the root
RECURSIVE Depth(_, _)
Depth(states, s) ==
    IF s = 0 THEN 0 ELSE 1 + Depth(states, Parent(states, s))

\* the number of rounds of the failure loop from `state` on the byte c
RECURSIVE FailureSteps(_, _, _)
FailureSteps(states, state, c) ==
    IF state # 0 /\ Goto(states, state, c) = 0
    THEN 1 + FailureSteps(states, states[state + 1].failure, c)
    ELSE 0

\* the bytes with a transition somewhere, and one byte (0) with none
BytesOf(states) ==
    {0} \cup UNION {DOMAIN states[k].next : k \in 1..Len(states)}

\* C17: in the automaton build returns, the failure link of every state
\* but the root leads to a state of strictly smaller depth, so on every
\* byte the failure loop ends after at most depth-many rounds; the engine
\* is initialized, so that Search does not take its one error return; and
\* for the empty text Search returns the empty list
C17_ScanTotal ==
    /\ \A s \in 1..(Len(automaton) - 1) :
          Depth(automaton, automaton[s + 1].failure) < Depth(automaton, s)
    /\ \A s \in 0..(Len(automaton) - 1) : \A c \in BytesOf(automaton) :
          FailureSteps(automaton, s, c) <= Depth(automaton, s)
    /\ initialized
    /\ (Searched /\ text = <<>>) => (~ret.found /\ ret.results = <<>>)

\* a search has returned matches from an automaton in which a state of
\* depth 3 has a failure link to a state of depth 2, and followed it:
\* the scan of "aaaa"-like texts with the pattern "aaa"
C17_Witness ==
    /\ Searched
    /\ Len(ret.results) >= 1
    /\ \E s \in 1..(Len(automaton) - 1) :
          /\ Depth(automaton, s) = 3
          /\ Depth(automaton, automaton[s + 1].failure) = 2
          /\ automaton[s + 1].outputs # <<>>

\* C18: every match a search returns has an id of the pattern list, an
\* offset >= 0 with offset + length <= |T| in bytes, the byte length of its
\* pattern as length, confidence 95, and as matched text the bytes
\* T[offset, offset + length) of the text as given
C18_MatchRecordShape ==
    Searched =>
        \A k \in 1..Len(ret.results) :
            LET m == ret.results[k] IN
            /\ m.PatternID >= 0 /\ m.PatternID < Len(patterns)
            /\ m.Offset >= 0
            /\ m.Offset + m.Length <= ByteLen(text)
            /\ m.Length = ByteLen(patterns[m.PatternID + 1])
            /\ m.Confidence = 95
            /\ m.Text = SubSeq(Bytes(text), m.Offset + 1, m.Offset + m.Length)

\* a search returned a match of a pattern of several bytes whose matched
\* text holds a capital letter of the text, and one that holds the bytes of
\* a character outside ASCII
C18_Witness ==
    /\ Searched
    /\ \E k \in 1..Len(ret.results) :
          /\ ret.results[k].Length >= 2
          /\ \E j \in 1..ret.results[k].Length :
                \/ ret.results[k].Text[j] = 65
                \/ ret.results[k].Text[j] >= 128

---------------------------------------------------------------------------
(* Properties of build                                                     *)

\* C19 (as claimed): a pattern that contributes no trie edge (the empty
\* string, or one with no character below 256) is in no state's output
\* list, not even the root's, and no search returns a match for it
C19_EdgelessPatternsSkipped ==
    \A id \in 0..(Len(patterns) - 1) :
        TrieDepth(patterns[id + 1]) = 0 =>
            /\ \A s \in 1..Len(automaton) :
                  \A j \in 1..Len(automaton[s].outputs) :
                      automaton[s].outputs[j] # id
            /\ Searched =>
                  \A k \in 1..Len(ret.results) : ret.results[k].PatternID # id

\* a search returned a match for a pattern without trie edges
EdgelessPatternMatched ==
    /\ Searched
    /\ \E k \in 1..Len(ret.results) :
          TrieDepth(patterns[ret.results[k].PatternID + 1]) = 0

---------------------------------------------------------------------------
(* Properties of the construction                                          *)

\* the constructor has just returned
Constructed == pc = "NewAhoCorasickMatcher"

\* the patterns file could not be opened
CannotOpen == file.name # "" /\ file.status = "cannot open"

\* the patterns file was read and no line of it is a pattern
EmptyAfterFiltering ==
    /\ file.name # ""
    /\ file.status = "ok"
    /\ LoadLines(file.lines, 1) = <<>>

\* C20 (as claimed): when the patterns file cannot be opened, or has no
\* pattern left after the empty lines and comments are dropped, the
\* constructor returns an error and no usable engine
C20_ConstructionErrors ==
    (Constructed /\ (CannotOpen \/ EmptyAfterFiltering)) =>
        (ret.err # NoError /\ ~ret.matcher /\ ~initialized)

\* a search succeeded on an engine built from a file that cannot be opened
SearchedAfterCannotOpen == Searched /\ CannotOpen /\ Len(ret.results) > 0

\* a search ran on an engine built from a file without patterns
SearchedAfterEmptyFile ==
    Searched /\ EmptyAfterFiltering /\ Len(file.lines) > 0

---------------------------------------------------------------------------
(* Properties of the scan on non-ASCII input                               *)

\* T[i..i+|P|) is byte for byte P
OccursExactlyAt(P, T, i) ==
    /\ i + ByteLen(P) <= ByteLen(T)
    /\ SubSeq(Bytes(T), i + 1, i + ByteLen(P)) = Bytes(P)

\* C21 (as claimed): on input with bytes >= 128, a pattern that holds such
\* bytes is reported at every byte offset where its exact byte sequence
\* occurs, and every reported match covers bytes of the text that equal the
\* pattern's up to ASCII case folding only (so no match runs across a
\* byte >= 128 that the pattern does not hold at that place, and no
\* byte >= 128 is case folded)
C21_RawNonAsciiBytes ==
    (Searched /\ ~AsciiInput) =>
        /\ \A id \in 0..(Len(patterns) - 1) : \A i \in 0..ByteLen(text) :
              (~IsAscii(patterns[id + 1])
               /\ OccursExactlyAt(patterns[id + 1], text, i)) =>
                  \E k \in 1..Len(ret.results) :
                      /\ ret.results[k].Offset = i
                      /\ ret.results[k].PatternID = id
        /\ \A k \in 1..Len(ret.results) :
              OccursAt(patterns[ret.results[k].PatternID + 1], text,
                       ret.results[k].Offset)

---------------------------------------------------------------------------
(* The concrete scenario                                                   *)

\* the (offset, length, pattern id) triples of a match list
Triples(ms) ==
    [k \in 1..Len(ms) |-> <<ms[k].Offset, ms[k].Length, ms[k].PatternID>>]

\* C22 (as claimed): the search of "he said she said" with the patterns
\* "he said", "she said" returns exactly (0, 7, 0), (8, 8, 1), in this order
C22_ScenarioTwoMatches ==
    (Searched /\ text = ScenarioText) =>
        Triples(ret.results) = <<<<0, 7, 0>>, <<8, 8, 1>>>>

\* C22 (amended): it returns exactly (0, 7, 0), (8, 8, 1), (9, 7, 0), in
\* this order: "he said" also ends where "she said" ends
C22_ScenarioThreeMatches ==
    (Searched /\ text = ScenarioText) =>
        Triples(ret.results) = <<<<0, 7, 0>>, <<8, 8, 1>>, <<9, 7, 0>>>>

\* the scenario text has been searched and matches were returned
C22_Witness ==
    /\ Searched
    /\ text = ScenarioText
    /\ patterns = ScenarioPatterns
    /\ Len(ret.results) > 0

---------------------------------------------------------------------------
(* Ownership of the match lists                                            *)

\* C23 (as claimed): a search that is answered from the cache returns the
\* match list of the scan of its text, whatever the caller has done to the
\* lists it got before, and a list that shares no backing array with a
\* list returned earlier for the same text
C23_CacheOwnsCopy ==
    (Searched /\ ret.found /\ NoCollisions(seen)) =>
        /\ Elements(ret.results) = Scan(automaton, patterns, text)
        /\ \A n \in 1..(Len(held) - 1) :
              (held[n][1] = text /\ ret.results.array # 0) =>
                  held[n][2].array # ret.results.array

\* a cache hit returned a list that the caller had changed before
HitAfterCallerWrite ==
    /\ Searched
    /\ ret.found
    /\ \E k \in 1..ret.results.len : Elements(ret.results)[k].Confidence = 0

---------------------------------------------------------------------------
(* Meaning of the automaton: outputs and failure links                     *)

\* the byte on the goto edge into the state s # 0
EdgeByte(states, s) ==
    CHOOSE c \in DOMAIN states[Parent(states, s) + 1].next :
        states[Parent(states, s) + 1].next[c] = s

\* the string spelled by the goto edges from the root to s
RECURSIVE Path(_, _)
Path(states, s) ==
    IF s = 0 THEN <<>>
    ELSE Append(Path(states, Parent(states, s)), EdgeByte(states, s))

IsPrefix(x, y) == Len(x) <= Len(y) /\ SubSeq(y, 1, Len(x)) = x

IsSuffix(x, y) ==
    Len(x) <= Len(y) /\ SubSeq(y, Len(y) - Len(x) + 1, Len(y)) = x

\* the bytes of pattern id after ASCII case folding
PatternBytes(id) == FoldBytes(Bytes(patterns[id + 1]))

PatternIds == 0..(Len(patterns) - 1)

StateIds == 0..(Len(automaton) - 1)

\* the ids in the output list of s
OutputSet(s) ==
    {automaton[s + 1].outputs[j] : j \in 1..Len(automaton[s + 1].outputs)}

AsciiPatterns == \A j \in 1..Len(patterns) : IsAscii(patterns[j])

\* C24 (as claimed): the output list of every state s holds exactly the
\* ids of the patterns that end at s and the ids in the output list of its
\* failure state, which are exactly the ids of the patterns that are
\* suffixes of the path to s, and holds each id once
C24_PropagatedOutputs ==
    \A s \in StateIds :
        /\ OutputSet(s) =
              {id \in PatternIds : PatternBytes(id) = Path(automaton, s)}
              \cup OutputSet(automaton[s + 1].failure)
        /\ OutputSet(s) =
              {id \in PatternIds : IsSuffix(PatternBytes(id), Path(automaton, s))}
        /\ Cardinality(OutputSet(s)) = Len(automaton[s + 1].outputs)

\* C24 holds of the automata of ASCII patterns
AsciiPropagatedOutputs == AsciiPatterns => C24_PropagatedOutputs

\* a state has taken over an id from its failure state
OutputsPropagated ==
    \E s \in StateIds :
        \E id \in OutputSet(s) : PatternBytes(id) # Path(automaton, s)

\* the state whose path is x
StateOf(x) == CHOOSE t \in StateIds : Path(automaton, t) = x

\* x is the path of some state
IsPath(x) == \E t \in StateIds : Path(automaton, t) = x

\* x is a prefix of some pattern, after ASCII case folding
IsPatternPrefix(x) == \E id \in PatternIds : IsPrefix(x, PatternBytes(id))

\* the proper suffixes of x
ProperSuffixes(x) == {SubSeq(x, k, Len(x)) : k \in 2..(Len(x) + 1)}

\* the longest element of a non-empty set of strings
Longest(X) == CHOOSE x \in X : \A y \in X : Len(y) <= Len(x)

\* C25 (as claimed): the failure link of every state s but the root leads
\* to the state whose path is the longest proper suffix of the path to s
\* that is a prefix of some pattern (the empty suffix gives the root); the
\* failure link of the root is the root
C25_FailureLinkMeaning ==
    /\ automaton[1].failure = 0
    /\ \A s \in StateIds \ {0} :
          LET x == Longest({y \in ProperSuffixes(Path(automaton, s)) :
                               IsPatternPrefix(y)})
          IN  /\ IsPath(x)
              /\ automaton[s + 1].failure = StateOf(x)

\* C25 holds of the automata of ASCII patterns
AsciiFailureLinkMeaning == AsciiPatterns => C25_FailureLinkMeaning

\* the same with the paths of the states in place of the pattern prefixes
FailureLinkIsLongestSuffixPath ==
    /\ automaton[1].failure = 0
    /\ \A s \in StateIds \ {0} :
          automaton[s + 1].failure =
              StateOf(Longest({y \in ProperSuffixes(Path(automaton, s)) :
                                 IsPath(y)}))

\* a failure link leads to a state other than the root
FailureLinkOffRoot ==
    \E s \in StateIds : automaton[s + 1].failure # 0

\* g(q, c): from q along the failure links to the first state with a goto
\* on c, or to the root; then the goto on c, 0 standing for the root
RECURSIVE EffectiveTransition(_, _, _)
EffectiveTransition(states, q, c) ==
    IF q # 0 /\ c \notin DOMAIN states[q + 1].next
    THEN EffectiveTransition(states, states[q + 1].failure, c)
    ELSE IF c \in DOMAIN states[q + 1].next THEN states[q + 1].next[c] ELSE 0

\* f(s) = g(f(p), c) for the state s reached by c from its parent p
FailureRecurrence(s) ==
    automaton[s + 1].failure =
        EffectiveTransition(automaton,
                            automaton[Parent(automaton, s) + 1].failure,
                            EdgeByte(automaton, s))

\* C26 (as claimed): the recurrence holds of every state but the root,
\* depth-1 states included
C26_FailureRecurrence ==
    \A s \in StateIds \ {0} : FailureRecurrence(s)

\* C26 (amended): the recurrence holds of every state of depth 2 and more;
\* the failure link of a depth-1 state is the root
C26_FailureRecurrenceBelowDepth1 ==
    \A s \in StateIds \ {0} :
        IF Parent(automaton, s) = 0
        THEN automaton[s + 1].failure = 0
        ELSE FailureRecurrence(s)

\* the automaton has a state of depth 2 or more whose failure link, got
\* from its parent's failure state, is not the root
C26_Witness ==
    \E s \in StateIds \ {0} :
        /\ Parent(automaton, s) # 0
        /\ automaton[s + 1].failure # 0
        /\ automaton[Parent(automaton, s) + 1].failure # 0

---------------------------------------------------------------------------
(* The cache under concurrent searches                                     *)

\* C27 (as claimed): under concurrent searches without Clear, a cache that
\* holds as many entries as its capacity keeps holding that many, and every
\* eviction comes with the insertion of a key that was not stored
C27_EntriesStayAtCapacity ==
    [][/\ EntryCount(entries) = maxSize => EntryCount(entries') = maxSize
       /\ stats'.Evictions > stats.Evictions =>
             (DOMAIN entries') \ (DOMAIN entries) # {}]_vars

\* two goroutines are about to store the same text
RacingPuts ==
    \E g, h \in Goroutines :
        /\ g # h
        /\ calls[g].at = "PutStore"
        /\ calls[h].at = "PutStore"
        /\ calls[g].key = calls[h].key

---------------------------------------------------------------------------
(* Properties of the C core                                                *)

\* the automaton has been built once, from the patterns it holds
BuiltOnce == ac.initialized /\ history.builds = 1

CStateIds == 0..(ac.state_count - 1)

CPatternIds == 0..(Len(ac.patterns) - 1)

\* the ids in the output list of state s
COutputSet(s) == {ac.states[s + 1].output[j] : j \in 1..Len(ac.states[s + 1].output)}

\* the ids of the patterns that are suffixes of the path of s
SuffixPatterns(s) ==
    {id \in CPatternIds : IsSuffix(ac.patterns[id + 1], Path(ac.states, s))}

\* the matches ac_search is to report for the text: one for every pattern
\* and every offset at which it occurs, up to ASCII case
COccurrences ==
    {[offset |-> Uint64(i), length |-> Uint64(Len(ac.patterns[id + 1])),
      pattern_id |-> id, confidence |-> CConfidence] :
        <<i, id>> \in {x \in (0..Len(text)) \X CPatternIds :
            /\ x[1] + Len(ac.patterns[x[2] + 1]) <= Len(text)
            /\ LowerBytes(SubSeq(text, x[1] + 1,
                                 x[1] + Len(ac.patterns[x[2] + 1])))
                   = ac.patterns[x[2] + 1]}}

\* ac_search has returned the matches of the text, none left out for lack
\* of room in the caller's array
SearchReturned == pc = "ac_search" /\ ret.code >= 0 /\ ret.code < history.max_matches

CReported == {ret.matches[k] : k \in 1..Len(ret.matches)}

\* C28 (as claimed): after ac_build, with no state that has more than 8
\* suffix patterns, the output list of every state holds the ids of all
\* patterns that are suffixes of the state's path, and ac_search on a short
\* text reports every occurrence of every pattern.
C28_COutputsPropagated ==
    (BuiltOnce /\ \A s \in CStateIds : Cardinality(SuffixPatterns(s)) <= OutputCap)
        => /\ \A s \in CStateIds : SuffixPatterns(s) \subseteq COutputSet(s)
           /\ (SearchReturned /\ Len(text) <= Len(CShortText))
                 => COccurrences \subseteq CReported

\* the outputs a state's own list holds are always ids of suffix patterns
COutputsAreSuffixPatterns ==
    BuiltOnce => \A s \in CStateIds : COutputSet(s) \subseteq SuffixPatterns(s)

\* a search of a short text has returned on an automaton built once
CSearchedBuiltOnce == BuiltOnce /\ SearchReturned /\ ret.code > 0

\* ac_search has been called on an automaton built once and has not yet
\* run
SearchCalled == pc = "call" /\ Len(stack) = 1 /\ BuiltOnce

\* C29 (as claimed): on a successfully built automaton, for texts of at most
\* 64 bytes and for longer ones, with simd_enabled or without, ac_search
\* returns a match count after finitely many calls between ac_search and
\* ac_search_simd.
C29_SearchReturnsCount ==
    SearchCalled ~> (pc = "ac_search" /\ stack = <<>> /\ ret.code >= 0)

\* without SIMD, and on texts of at most 64 bytes, it does
C29_FallbackReturnsCount ==
    (SearchCalled /\ ~(ac.simd_enabled /\ Len(text) > SimdThreshold))
        ~> (pc = "ac_search" /\ stack = <<>> /\ ret.code >= 0)

\* the process has run out of stack in the calls between ac_search and
\* ac_search_simd
StackExhausted == pc = "SIGSEGV" /\ Len(stack) = MaxStack

\* a fresh automaton built once from the pattern list the automaton holds
FreshBuild ==
    ac_build(ac_load_patterns_from_array(ac_create(ac.simd_enabled),
                                         ac.patterns, 1)).ac

\* C30 (as claimed): after any sequence of ac_add_pattern and ac_build
\* calls, the goto tables, failure links and output lists the last
\* successful ac_build has left equal those of a fresh automaton built once
\* from the same pattern list; ac_build twice gives what ac_build once gives.
C30_RebuildEqualsFreshBuild ==
    ac.initialized
        => /\ ac.state_count = FreshBuild.state_count
           /\ SubSeq(ac.states, 1, ac.state_count) = FreshBuild.states

\* the first build does leave the automaton of a fresh build
FirstBuildIsFreshBuild ==
    BuiltOnce
        => /\ ac.state_count = FreshBuild.state_count
           /\ SubSeq(ac.states, 1, ac.state_count) = FreshBuild.states

====
